---------------------------- MODULE Spec2Model ----------------------------
(***************************************************************************)
(* Verification model of the chores-game web application:                  *)
(*   - the session codec (apps/web/src/lib/auth/session.ts),               *)
(*   - the Firebase token refresh wrapper (lib/auth/request-session.ts),   *)
(*   - the route handlers over the Firestore document store.               *)
(* Strings are modelled as sequences of atoms so that split/sign/decode    *)
(* are computed, not assumed.                                              *)
(***************************************************************************)
EXTENDS Integers, Sequences, FiniteSets, TLC

VARIABLES
    secret,     \* process.env.SESSION_SECRET
    nowMs,      \* Date.now()
    ticks,      \* number of clock advances so far (bounded)
    token,      \* the string handed to parseSessionToken (session_user cookie)
    edits,      \* number of edits an outside party made to the cookie (bounded)
    issued,     \* what createSessionToken returned last, and when
    parsed,     \* what parseSessionToken returned last
    apiKey,     \* whether process.env.FIREBASE_WEB_API_KEY is set
    request,    \* the HTTP request a route handler is working on
    pc,         \* where that handler is
    run,        \* the state of runWithRefreshedFirebaseToken for that request
    response,   \* the HTTP response of the handler
    store,      \* the Firestore documents: users, family members, inviteLookup
    expired,    \* the ID tokens Firestore no longer accepts
    work,       \* where the work function of the handler is, and its locals
    history     \* the requests answered so far, with what each wrote

sessionVars == <<secret, nowMs, ticks, token, edits, issued, parsed>>

requestVars == <<apiKey, request, pc, run, response>>

storeVars == <<store, expired, work, history>>

vars == <<secret, nowMs, ticks, token, edits, issued, parsed,
          apiKey, request, pc, run, response, store, expired, work, history>>

-----------------------------------------------------------------------------
(* Bounds of the model *)

MaxTicks == 1
MaxEdits == 1

(* Program constants *)

\* session.ts:17   const SESSION_MAX_AGE_SECONDS = 60 * 60 * 24 * 7
SESSION_MAX_AGE_SECONDS == 60 * 60 * 24 * 7
\* session.ts:21   secret.length < 32
MinSecretLength == 32
\* session.ts:39   Date.now() / 1000
MsPerSecond == 1000
\* length of a base64url SHA-256 digest (43 characters)
SigLength == 43

-----------------------------------------------------------------------------
(* Values *)

UNDEF == "<undefined>"

\* SessionUser (session.ts:3-11); the two Firebase fields are optional.
SessionUser(uid, role, email, idTok, refTok) ==
    [uid |-> uid, role |-> role, email |-> email, name |-> "N", picture |-> "pic",
     firebaseIdToken |-> idTok, firebaseRefreshToken |-> refTok]

NoUser == SessionUser(UNDEF, UNDEF, UNDEF, UNDEF, UNDEF)

UserFields ==
    <<"uid", "role", "email", "name", "picture", "firebaseIdToken", "firebaseRefreshToken">>

Users ==
    { SessionUser("u1", "admin", "a@x", "idA", "rtA"),
      SessionUser("u2", "player", "b@x", UNDEF, "rtB"),
      SessionUser("u3", "player", "c@x", UNDEF, UNDEF) }

\* A value of SESSION_SECRET: unset, or a string of some length.
Secret(isSet, len, id) == [isSet |-> isSet, len |-> len, id |-> id]

Secrets ==
    { Secret(FALSE, 0, "unset"),
      Secret(TRUE, MinSecretLength - 1, "short"),
      Secret(TRUE, MinSecretLength, "k32") }

\* A key somebody else holds (long enough, but not the server's).
ForeignKey == Secret(TRUE, MinSecretLength, "foreign")

-----------------------------------------------------------------------------
(* JSON texts: an object text is the sequence of its members. *)

Member(k, s, n) == [k |-> k, s |-> s, n |-> n]

JsonText(kind, members) == [kind |-> kind, members |-> members]

JsonGarbage == JsonText("garbage", <<>>)
JsonNull == JsonText("null", <<>>)
JsonNumber == JsonText("number", <<>>)

RECURSIVE StringifyFields(_, _)
StringifyFields(obj, i) ==
    IF i > Len(UserFields) THEN <<>>
    ELSE LET k == UserFields[i]
             rest == StringifyFields(obj, i + 1)
         IN IF obj[k] = UNDEF THEN rest ELSE <<Member(k, obj[k], 0)>> \o rest

\* JSON.stringify of a SessionPayload: undefined members are left out;
\* exp is written when the payload has one.
JsonStringify(user, hasExp, exp) ==
    JsonText("object",
             StringifyFields(user, 1)
                 \o (IF hasExp THEN <<Member("exp", "", exp)>> ELSE <<>>))

HasMember(text, k) == \E i \in 1..Len(text.members) : text.members[i].k = k

GetMember(text, k) ==
    text.members[CHOOSE i \in 1..Len(text.members) : text.members[i].k = k]

\* a property read that yields the empty string for an absent member
ReadString_EmptyWhenAbsent(text, k) == IF HasMember(text, k) THEN GetMember(text, k).s ELSE ""

\* property read on the parsed object: undefined when the member is absent
ReadString(text, k) == IF HasMember(text, k) THEN GetMember(text, k).s ELSE UNDEF

-----------------------------------------------------------------------------
(* Strings as sequences of atoms *)

Atom(t, json, seg, key) == [t |-> t, json |-> json, seg |-> seg, key |-> key]

Dot == Atom("dot", JsonGarbage, <<>>, "")
Junk == Atom("junk", JsonGarbage, <<>>, "")
\* a run of base64url characters that decodes to the JSON text json
B64(json) == Atom("b64", json, <<>>, "")
\* the 43 base64url characters of HMAC-SHA256(seg) under key
Mac(seg, key) == Atom("mac", JsonGarbage, seg, key)

Undefined == <<Atom("undefined", JsonGarbage, <<>>, "")>>

AtomLength(a) == IF a.t = "mac" THEN SigLength ELSE 1

RECURSIVE ByteLength(_)
ByteLength(s) == IF s = <<>> THEN 0 ELSE AtomLength(Head(s)) + ByteLength(Tail(s))

\* String.prototype.split("."): the pieces between the dots
RECURSIVE SplitDot(_, _)
SplitDot(s, cur) ==
    IF s = <<>> THEN <<cur>>
    ELSE IF Head(s) = Dot THEN <<cur>> \o SplitDot(Tail(s), <<>>)
    ELSE SplitDot(Tail(s), Append(cur, Head(s)))

Split(s) == SplitDot(s, <<>>)

IsB64(a) == a.t = "b64"

\* Buffer.from(s, "base64url").toString("utf8"): characters outside the
\* alphabet are skipped; the 43 digest characters decode to bytes that are no JSON.
Base64Decode(s) ==
    LET chunks == SelectSeq(s, IsB64)
    IN IF Len(chunks) = 1 /\ \A i \in 1..Len(s) : s[i].t # "mac"
       THEN chunks[1].json
       ELSE JsonGarbage

\* Buffer.from(JSON.stringify(payload)).toString("base64url")
Base64Encode(json) == <<B64(json)>>


-----------------------------------------------------------------------------
(* Session codec: session.ts:19-87 *)

Result(kind, user) == [kind |-> kind, user |-> user]

Null == Result("null", NoUser)
Thrown == Result("throw", NoUser)
NotParsed == Result("none", NoUser)

\* getSecret(): null unless the secret is set and at least 32 characters long
getSecret(s) == IF ~s.isSet \/ s.len = 0 \/ s.len < MinSecretLength THEN UNDEF ELSE s.id

\* sign(value, secret): the base64url HMAC-SHA256 digest
sign(value, key) == <<Mac(value, key)>>

NowSeconds(ms) == ms \div MsPerSecond

createSessionToken(user, s, ms) ==
    LET key == getSecret(s)
        payload == JsonStringify(user, TRUE, NowSeconds(ms) + SESSION_MAX_AGE_SECONDS)
        encodedPayload == Base64Encode(payload)
    IN IF key = UNDEF THEN Undefined
       ELSE encodedPayload \o <<Dot>> \o sign(encodedPayload, key)

\* crypto.timingSafeEqual: throws a RangeError on buffers of different length
timingSafeEqual(a, b) ==
    IF ByteLength(a) # ByteLength(b) THEN "throw"
    ELSE IF a = b THEN "equal" ELSE "different"

\* the guard with the digest comparison left out (only the lengths compared)
SignatureRejected_LengthOnly(expectedSig, providedSig) ==
    IF ByteLength(expectedSig) # ByteLength(providedSig) THEN "reject" ELSE "accept"

\* session.ts:60-65, the signature guard: "reject" when the token is refused,
\* "throw" when evaluating the guard throws
SignatureRejected(expectedSig, providedSig) ==
    IF ByteLength(expectedSig) # ByteLength(providedSig) THEN "reject"
    ELSE CASE timingSafeEqual(expectedSig, providedSig) = "equal" -> "accept"
           [] timingSafeEqual(expectedSig, providedSig) = "different" -> "reject"
           [] OTHER -> "throw"

\* the expiry guard with the comparison against the clock left out
Expired_NoClock(json, ms) ==
    \/ ~HasMember(json, "exp")
    \/ GetMember(json, "exp").n = 0

\* session.ts:71, the expiry guard on the parsed payload
Expired(json, ms) ==
    \/ ~HasMember(json, "exp")
    \/ GetMember(json, "exp").n = 0
    \/ GetMember(json, "exp").n < NowSeconds(ms)

\* session.ts:67-86, the body of the try block: "throw" stands for an
\* exception raised inside it (JSON.parse on a bad text, .exp of null)
ParsePayload(encodedPayload, ms) ==
    LET json == Base64Decode(encodedPayload)
    IN CASE json.kind = "garbage" -> Thrown
         [] json.kind = "null" -> Thrown
         [] json.kind = "number" -> Null
         [] OTHER ->
              IF Expired(json, ms) THEN Null
              ELSE Result("user",
                          [f \in {UserFields[i] : i \in 1..Len(UserFields)} |->
                              ReadString(json, f)])

\* the try block without its catch
TryParsePayload_NoCatch(encodedPayload, ms) == ParsePayload(encodedPayload, ms)

\* the try/catch of session.ts:67-86
TryParsePayload(encodedPayload, ms) ==
    IF ParsePayload(encodedPayload, ms) = Thrown THEN Null
    ELSE ParsePayload(encodedPayload, ms)

parseSessionToken(tok, s, ms) ==
    LET key == getSecret(s)
        parts == Split(tok)
        encodedPayload == parts[1]
        providedSig == IF Len(parts) >= 2 THEN parts[2] ELSE <<>>
    IN IF key = UNDEF \/ tok = Undefined \/ tok = <<>> THEN Null
       ELSE IF encodedPayload = <<>> \/ providedSig = <<>> THEN Null
       ELSE CASE SignatureRejected(sign(encodedPayload, key), providedSig) = "reject" -> Null
              [] SignatureRejected(sign(encodedPayload, key), providedSig) = "throw" -> Thrown
              [] OTHER -> TryParsePayload(encodedPayload, ms)

-----------------------------------------------------------------------------
(* Inputs of the session codec *)

\* payload texts a cookie may carry
ExpValues == {0, 1, SESSION_MAX_AGE_SECONDS + 1}

PayloadUsers == { u \in Users : u.uid = "u1" }

PayloadTexts ==
    { JsonStringify(u, TRUE, e) : u \in PayloadUsers, e \in ExpValues }
        \cup { JsonStringify(u, FALSE, 0) : u \in PayloadUsers }
        \cup { JsonNull, JsonNumber, JsonGarbage }

SigningKeys == { s.id : s \in { x \in Secrets : x.isSet } } \cup { ForeignKey.id }

\* cookies of the shape payload.signature, signed under some key
SignedTokens ==
    { Base64Encode(j) \o <<Dot>> \o sign(Base64Encode(j), k) : j \in PayloadTexts, k \in SigningKeys }

InitTokens == { Undefined, <<>> } \cup SignedTokens

\* what an outside party can put into a cookie without knowing the secret:
\* separators, stray characters, a payload of its own choice, and digests
\* computed under its own key
ForgedPayload ==
    JsonStringify(CHOOSE u \in Users : u.uid = "u1", TRUE, SESSION_MAX_AGE_SECONDS + 1)

IssuedPayload ==
    JsonStringify(CHOOSE u \in Users : u.uid = "u1", TRUE, SESSION_MAX_AGE_SECONDS)

EditAtoms ==
    { Dot, Junk, B64(ForgedPayload),
      Mac(Base64Encode(ForgedPayload), ForeignKey.id),
      Mac(Base64Encode(IssuedPayload), ForeignKey.id) }

ReplaceAt(s, i, a) == [s EXCEPT ![i] = a]
RemoveAt(s, i) == SubSeq(s, 1, i - 1) \o SubSeq(s, i + 1, Len(s))
InsertAt(s, i, a) == SubSeq(s, 1, i - 1) \o <<a>> \o SubSeq(s, i, Len(s))

Edited(s) ==
    { ReplaceAt(s, i, a) : i \in 1..Len(s), a \in EditAtoms }
        \cup { RemoveAt(s, i) : i \in 1..Len(s) }
        \cup { InsertAt(s, i, a) : i \in 1..(Len(s) + 1), a \in EditAtoms }

ClockSteps ==
    { 500, SESSION_MAX_AGE_SECONDS * MsPerSecond, (SESSION_MAX_AGE_SECONDS + 1) * MsPerSecond }

NotIssued == [token |-> Undefined, atMs |-> 0, user |-> NoUser, live |-> FALSE]

-----------------------------------------------------------------------------
(* Errors: a message is a sequence of words, each with its length in        *)
(* characters, so that includes() and slice() are computed.                 *)

Word(w, status, n) == [w |-> w, status |-> status, n |-> n]

Err(kind, msg) == [kind |-> kind, msg |-> msg]

NoError == Err("none", <<>>)

\* new Error(message)
NewError(msg) == Err("Error", msg)

\* a thrown value that is no Error object
NonErrorThrow == Err("other", <<>>)

\* session.ts:147  `FIRESTORE_HTTP_${response.status}${detail ? `_${detail}` : ""}`
FirestoreHttpError(status, detail) ==
    NewError(<<Word("FIRESTORE_HTTP_", status, 18)>> \o detail)

\* request-session.ts:52-54  `FIREBASE_REFRESH_FAILED_${status}${detail ? ...}`
RefreshFailedError(status, detail) ==
    NewError(<<Word("FIREBASE_REFRESH_FAILED_", status, 27)>> \o detail)

MissingIdTokenError == NewError(<<Word("MISSING_FIREBASE_ID_TOKEN", 0, 25)>>)
MissingSessionError == NewError(<<Word("MISSING_FIREBASE_SESSION", 0, 24)>>)
ApiKeyMissingError == NewError(<<Word("FIREBASE_API_KEY_MISSING", 0, 24)>>)
MissingRefreshTokenError == NewError(<<Word("MISSING_FIREBASE_REFRESH_TOKEN", 0, 30)>>)
UidMismatchError == NewError(<<Word("FIREBASE_REFRESH_UID_MISMATCH", 0, 29)>>)
FetchFailedError == NewError(<<Word("fetch failed", 0, 12)>>)
ProjectIdMissingError == NewError(<<Word("FIREBASE_PROJECT_ID_MISSING", 0, 27)>>)

\* error details the Firestore REST API sends
DocumentNotFound(pathLength) ==
    <<Word("Document", 0, 10), Word("<path>", 0, pathLength), Word("not found", 0, 12)>>
DatabaseMissing == <<Word("database (default) does not exist", 0, 60)>>
PermissionDenied == <<Word("Missing or insufficient permissions.", 0, 37)>>

\* String.prototype.toLowerCase on a word
ToLowerWord(w) == IF w = "Document" THEN "document" ELSE w

\* message.includes("FIRESTORE_HTTP_<status>") and the like
IncludesStatus(msg, prefix, status) ==
    \E i \in 1..Len(msg) : msg[i].w = prefix /\ msg[i].status = status

IncludesPrefix(msg, prefix) == \E i \in 1..Len(msg) : msg[i].w = prefix

\* message.toLowerCase().includes(text)
IncludesLower(msg, text) == \E i \in 1..Len(msg) : ToLowerWord(msg[i].w) = text

RECURSIVE Slice(_, _)
\* message.slice(0, limit): a word that is cut no longer matches anything
Slice(msg, limit) ==
    IF msg = <<>> \/ Head(msg).n > limit THEN <<>>
    ELSE <<Head(msg)>> \o Slice(Tail(msg), limit - Head(msg).n)

\* request-session.ts:16-21
isFirestoreUnauthorizedError(e) ==
    IF e.kind # "Error" THEN FALSE ELSE IncludesStatus(e.msg, "FIRESTORE_HTTP_", 401)

-----------------------------------------------------------------------------
(* Request values *)

Falsy(s) == s = UNDEF \/ s = ""

Handlers ==
    { "summary", "addMember", "reinvite", "accept",
      "choresList", "choresCreate", "choresDelete", "suggestions" }

\* JavaScript values of a JSON body
JsUndefined == [type |-> "undefined", str |-> <<>>, items |-> <<>>]
JsNumber == [type |-> "number", str |-> <<>>, items |-> <<>>]
JsString(str) == [type |-> "string", str |-> str, items |-> <<>>]
JsArray(items) == [type |-> "array", str |-> <<>>, items |-> items]

\* characters of body strings; "L" is a run of 161 letters
CharLength(c) == IF c = "L" THEN 161 ELSE 1

RECURSIVE StringLength(_)
StringLength(str) ==
    IF str = <<>> THEN 0 ELSE CharLength(Head(str)) + StringLength(Tail(str))

IsSpace(c) == c = " " \/ c = "\t"

RECURSIVE TrimStart(_)
TrimStart(str) ==
    IF str # <<>> /\ IsSpace(Head(str)) THEN TrimStart(Tail(str)) ELSE str

RECURSIVE TrimEnd(_)
TrimEnd(str) ==
    IF str # <<>> /\ IsSpace(str[Len(str)]) THEN TrimEnd(SubSeq(str, 1, Len(str) - 1))
    ELSE str

Trim(str) == TrimEnd(TrimStart(str))

RECURSIVE CollapseSpaces(_)
\* replace(/\s+/g, " ")
CollapseSpaces(str) ==
    IF str = <<>> THEN <<>>
    ELSE IF IsSpace(Head(str)) THEN <<" ">> \o CollapseSpaces(TrimStart(str))
    ELSE <<Head(str)>> \o CollapseSpaces(Tail(str))

\* part_006:84-86
normalizeDescription(value) == CollapseSpaces(Trim(value))

\* the value request.json() resolves to: an object with these members, or null
Body(json, description, titles, name, email) ==
    [json |-> json, description |-> description, titles |-> titles,
     name |-> name, email |-> email]

NoBody == Body("object", JsUndefined, JsUndefined, JsUndefined, JsUndefined)
NullBody == Body("null", JsUndefined, JsUndefined, JsUndefined, JsUndefined)

Request(handler, cookie, id, jsonOk, body) ==
    [handler |-> handler, cookie |-> cookie, id |-> id, jsonOk |-> jsonOk, body |-> body,
     session |-> NoUser]

NoRequest == Request("none", Undefined, "", TRUE, NoBody)

Response(status, error, message, setCookie, cookie) ==
    [status |-> status, error |-> error, message |-> message,
     setCookie |-> setCookie, cookie |-> cookie]

NoResponse == Response(0, "", FALSE, FALSE, NoUser)

\* an exception left the handler: the framework answers 500 without a JSON error
UnhandledError == Response(500, "", FALSE, FALSE, NoUser)

\* NextResponse.json({ error }, { status })
JsonError(status, error) == Response(status, error, FALSE, FALSE, NoUser)

jsonUnauthorized == JsonError(401, "unauthorized")
jsonReauthRequired == Response(401, "reauth_required", TRUE, FALSE, NoUser)
jsonFirestoreForbidden == Response(403, "firestore_forbidden", TRUE, FALSE, NoUser)
jsonFirestoreNotConfigured == Response(503, "firestore_not_configured", TRUE, FALSE, NoUser)

\* response of the success path; the cookie is set when the token was refreshed
JsonSuccess(status, refreshed, refreshedSession) ==
    Response(status, "", FALSE, refreshed, IF refreshed THEN refreshedSession ELSE NoUser)

NoExchange ==
    [status |-> 0, detail |-> <<>>, user_id |-> "", id_token |-> "", refresh_token |-> ""]

\* what one call of runWithRefreshedFirebaseToken did so far: attempts made, calls
\* of work and the tokens they got, exchanges made and the last answer, the errors
\* the attempts threw in order, the error caught at line 87, the error that left
\* the wrapper, and the returned data, refreshed flag and session
Run(attempts, workCalls, workTokens, exchanges, exchange, errors, caught, thrown, data, refreshed, session) ==
    [attempts |-> attempts, workCalls |-> workCalls, workTokens |-> workTokens,
     exchanges |-> exchanges, exchange |-> exchange, errors |-> errors,
     caught |-> caught, thrown |-> thrown, data |-> data,
     refreshed |-> refreshed, session |-> session]

NoRun == Run(0, 0, {}, 0, NoExchange, <<>>, NoError, NoError, "", FALSE, NoUser)

IdleServer ==
    /\ request = NoRequest
    /\ pc = "idle"
    /\ run = NoRun
    /\ response = NoResponse

\* a member document families/<familyId>/members/<id>; a field that is absent
\* reads as "" (readString) or FALSE (readBoolean)
MemberDoc(uid, email, role, status, deleted) ==
    [exists |-> TRUE, uid |-> uid, email |-> email, role |-> role,
     status |-> status, deleted |-> deleted]

NoDoc == [exists |-> FALSE, uid |-> "", email |-> "", role |-> "", status |-> "",
          deleted |-> FALSE]

\* inviteLookup/<email>
LookupDoc(email, familyId, role, status) ==
    [exists |-> TRUE, email |-> email, familyId |-> familyId, role |-> role,
     status |-> status]

NoLookup == [exists |-> FALSE, email |-> "", familyId |-> "", role |-> "", status |-> ""]

\* users/<uid>
UserDoc(familyIds) == [exists |-> TRUE, familyIds |-> familyIds]

NoUserDoc == [exists |-> FALSE, familyIds |-> <<>>]

UserIds == { "u1", "u2" }
MemberIds == { "u1", "u2", "m1", "e@x" }
LookupIds == { "e@x" }

Store(users, members, lookups) == [users |-> users, members |-> members, lookups |-> lookups]

EmptyStore ==
    Store([u \in UserIds |-> NoUserDoc], [m \in MemberIds |-> NoDoc],
          [e \in LookupIds |-> NoLookup])

Work(step, attempt, idToken, familyId, member, writes, before) ==
    [step |-> step, attempt |-> attempt, idToken |-> idToken, familyId |-> familyId,
     member |-> member, writes |-> writes, before |-> before]

NoWork == Work("none", 0, "", "", NoDoc, <<>>, EmptyStore)

IdleStore ==
    /\ store = EmptyStore
    /\ expired = {}
    /\ work = NoWork
    /\ history = <<>>

-----------------------------------------------------------------------------
(* Session codec as a state machine *)

InitSession ==
    /\ secret \in Secrets
    /\ nowMs = 0
    /\ ticks = 0
    /\ token \in InitTokens
    /\ edits = 0
    /\ issued = NotIssued
    /\ parsed = NotParsed
    /\ apiKey = TRUE
    /\ IdleServer
    /\ IdleStore

\* the server issues a cookie for a signed-in user
CreateSessionToken(user) ==
    /\ ~issued.live
    /\ token' = createSessionToken(user, secret, nowMs)
    /\ issued' = [token |-> createSessionToken(user, secret, nowMs), atMs |-> nowMs,
                  user |-> user, live |-> TRUE]
    /\ edits' = 0
    /\ parsed' = NotParsed
    /\ UNCHANGED <<secret, nowMs, ticks>>
    /\ UNCHANGED requestVars
    /\ UNCHANGED storeVars

\* somebody alters the cookie before it comes back
EditCookie ==
    /\ edits < MaxEdits
    /\ token # Undefined
    /\ \E t \in Edited(token) : token' = t
    /\ edits' = edits + 1
    /\ parsed' = NotParsed
    /\ UNCHANGED <<secret, nowMs, ticks, issued>>
    /\ UNCHANGED requestVars
    /\ UNCHANGED storeVars

Tick ==
    /\ ticks < MaxTicks
    /\ \E d \in ClockSteps : nowMs' = nowMs + d
    /\ ticks' = ticks + 1
    /\ parsed' = NotParsed
    /\ UNCHANGED <<secret, token, edits, issued>>
    /\ UNCHANGED requestVars
    /\ UNCHANGED storeVars

ParseSessionToken ==
    /\ parsed = NotParsed
    /\ parsed' = parseSessionToken(token, secret, nowMs)
    /\ UNCHANGED <<secret, nowMs, ticks, token, edits, issued>>
    /\ UNCHANGED requestVars
    /\ UNCHANGED storeVars

NextSession ==
    \/ \E u \in Users : CreateSessionToken(u)
    \/ EditCookie
    \/ Tick
    \/ ParseSessionToken

SpecSession == InitSession /\ [][NextSession]_vars


-----------------------------------------------------------------------------
(* Route handlers: authentication and validation before the work starts *)

\* part_006:287  .slice(0, 100)
MaxTitlesPerRequest == 100
\* part_006:294  title.length > 160
MaxDescriptionLength == 160
\* reinvite/route.ts:365  name.length < 2 || name.length > 80
MinNameLength == 2
MaxNameLength == 80

\* request-session.ts:4-6
getSessionFromRequest(cookie) == parseSessionToken(cookie, secret, nowMs)

\* the authentication with the test for the Firebase tokens left out
Authenticate_NoTokenCheck(sessionResult) ==
    IF sessionResult.kind # "user" \/ Falsy(sessionResult.user.uid) THEN jsonUnauthorized
    ELSE NoResponse

\* the first lines of every handler (e.g. part_006:256-262, reinvite/route.ts:52-58):
\* the response that ends the request, or NoResponse when it may go on
Authenticate(sessionResult) ==
    IF sessionResult.kind # "user" \/ Falsy(sessionResult.user.uid) THEN jsonUnauthorized
    ELSE IF /\ Falsy(sessionResult.user.firebaseIdToken)
            /\ Falsy(sessionResult.user.firebaseRefreshToken)
         THEN jsonReauthRequired
    ELSE NoResponse

IsNonBlankString(v) == v.type = "string" /\ normalizeDescription(v.str) # <<>>

NormalizeTitle(v) == normalizeDescription(v.str)

\* the titles of the request without the slice(0, 100)
TitlesOf_Uncapped(body) ==
    LET descriptionFromSingle ==
            IF body.description.type = "string"
            THEN normalizeDescription(body.description.str) ELSE <<>>
        titlesInput == IF body.titles.type = "array" THEN body.titles.items ELSE <<>>
        kept == SelectSeq(titlesInput, IsNonBlankString)
    IN IF descriptionFromSingle # <<>> THEN <<descriptionFromSingle>>
       ELSE [i \in 1..Len(kept) |-> NormalizeTitle(kept[i])]

\* part_006:280-288
TitlesOf(body) ==
    LET descriptionFromSingle ==
            IF body.description.type = "string"
            THEN normalizeDescription(body.description.str) ELSE <<>>
        titlesInput == IF body.titles.type = "array" THEN body.titles.items ELSE <<>>
        kept == SelectSeq(titlesInput, IsNonBlankString)
        titlesFromList ==
            [i \in 1..(IF Len(kept) < MaxTitlesPerRequest THEN Len(kept)
                       ELSE MaxTitlesPerRequest) |-> NormalizeTitle(kept[i])]
    IN IF descriptionFromSingle # <<>> THEN <<descriptionFromSingle>> ELSE titlesFromList

\* part_006:264-296; body.dueDate at line 271 is the first read of the body
ValidateCreateChores(jsonOk, body) ==
    IF ~jsonOk THEN JsonError(400, "invalid_json")
    ELSE IF body.json = "null" THEN UnhandledError
    ELSE IF Len(TitlesOf(body)) = 0 THEN JsonError(400, "description_required")
    ELSE IF \E i \in 1..Len(TitlesOf(body)) :
                StringLength(TitlesOf(body)[i]) > MaxDescriptionLength
         THEN JsonError(400, "description_too_long")
    ELSE NoResponse

\* reinvite/route.ts:267-269   /^[^\s@]+@[^\s@]+\.[^\s@]+$/
isLikelyEmail(value) ==
    \E at \in 1..Len(value) :
        /\ value[at] = "@"
        /\ \A i \in 1..Len(value) : ~IsSpace(value[i]) /\ (value[i] = "@" => i = at)
        /\ at > 1
        /\ \E dot \in (at + 2)..(Len(value) - 1) : value[dot] = "."

\* (value ?? ""): undefined becomes the empty string, anything else stays
OrEmpty(v) == IF v.type = "undefined" THEN JsString(<<>>) ELSE v

\* reinvite/route.ts:354-374 (add member); .trim() exists on strings only
ValidateAddMember(jsonOk, body) ==
    IF ~jsonOk THEN JsonError(400, "invalid_json")
    ELSE IF body.json = "null" THEN UnhandledError
    ELSE IF OrEmpty(body.name).type # "string" \/ OrEmpty(body.email).type # "string"
         THEN UnhandledError
    ELSE IF \/ StringLength(Trim(OrEmpty(body.name).str)) < MinNameLength
            \/ StringLength(Trim(OrEmpty(body.name).str)) > MaxNameLength
         THEN JsonError(400, "name_must_be_between_2_and_80_chars")
    ELSE IF /\ Trim(OrEmpty(body.email).str) # <<>>
            /\ ~isLikelyEmail(Trim(OrEmpty(body.email).str))
         THEN JsonError(400, "invalid_email")
    ELSE NoResponse

\* session.email.trim().toLowerCase() on the e-mail addresses of the model
NormalizeEmail(email) ==
    CASE email = UNDEF -> ""
      [] email = " " -> ""
      [] email = " A@x " -> "a@x"
      [] email = " E@x " -> "e@x"
      [] OTHER -> email

\* what each handler checks between authentication and the work
Validate(req, user) ==
    CASE req.handler = "reinvite" ->
            IF req.id = "" THEN JsonError(400, "member_id_required") ELSE NoResponse
      [] req.handler = "choresDelete" ->
            IF req.id = "" THEN JsonError(400, "chore_id_required") ELSE NoResponse
      [] req.handler = "accept" ->
            IF NormalizeEmail(user.email) = "" THEN JsonError(400, "session_email_missing")
            ELSE NoResponse
      [] req.handler = "choresCreate" -> ValidateCreateChores(req.jsonOk, req.body)
      [] req.handler = "addMember" -> ValidateAddMember(req.jsonOk, req.body)
      [] OTHER -> NoResponse

-----------------------------------------------------------------------------
(* Route handlers: the responses *)

\* the kinds of result the work function of a handler returns
Kinds(handler) ==
    CASE handler = "reinvite" ->
            { "ok", "family_not_found", "not_allowed", "cannot_reinvite_self",
              "member_email_required", "member_not_found" }
      [] handler = "choresCreate" -> { "ok", "family_not_found" }
      [] handler = "choresDelete" -> { "ok", "family_not_found" }
      [] handler = "accept" -> { "ok", "invite_not_found" }
      [] OTHER -> { "ok" }

KindStatus(kind) ==
    CASE kind \in { "family_not_found", "member_not_found", "invite_not_found" } -> 404
      [] kind = "not_allowed" -> 403
      [] OTHER -> 400

SuccessStatus(handler) == IF handler \in { "choresCreate", "addMember" } THEN 201 ELSE 200

\* the lines after the wrapper returned (e.g. reinvite/route.ts:167-187)
RespondTo(handler, data, refreshed, refreshedSession) ==
    IF data # "ok" THEN JsonError(KindStatus(data), data)
    ELSE JsonSuccess(SuccessStatus(handler), refreshed, refreshedSession)

\* error.message.slice(0, 180), or 160 in the summary and add-member handlers
SliceLimit(handler) == IF handler \in { "summary", "addMember" } THEN 160 ELSE 180

GenericError(handler) ==
    CASE handler = "summary" -> "summary_unavailable"
      [] handler = "addMember" -> "add_member_failed"
      [] handler = "reinvite" -> "reinvite_member_failed"
      [] handler = "accept" -> "accept_invite_failed"
      [] handler = "choresList" -> "chores_unavailable"
      [] handler = "choresCreate" -> "create_chores_failed"
      [] handler = "choresDelete" -> "delete_chore_failed"
      [] OTHER -> "suggestions_unavailable"

NotFoundError(handler) ==
    CASE handler = "reinvite" -> "member_not_found"
      [] handler = "choresDelete" -> "chore_not_found"
      [] OTHER -> ""

\* const reason = error instanceof Error && error.message ? message.slice(0, n) : "unknown"
Reason(handler, e) ==
    IF e.kind = "Error" /\ e.msg # <<>> THEN Slice(e.msg, SliceLimit(handler))
    ELSE <<Word("unknown", 0, 7)>>

IsDatabaseMissing(reason) ==
    /\ IncludesStatus(reason, "FIRESTORE_HTTP_", 404)
    /\ IncludesLower(reason, "database (default) does not exist")

IsDocumentNotFound(reason) ==
    /\ IncludesStatus(reason, "FIRESTORE_HTTP_", 404)
    /\ IncludesLower(reason, "document")
    /\ IncludesLower(reason, "not found")

\* the mapping with the FIRESTORE_HTTP_403 case left out
MapError_No403(handler, e) ==
    LET reason == Reason(handler, e)
    IN IF handler \in { "summary", "addMember" } /\ IsDatabaseMissing(reason)
       THEN jsonFirestoreNotConfigured
       ELSE IF IncludesStatus(reason, "FIRESTORE_HTTP_", 401) THEN jsonReauthRequired
       ELSE IF IncludesPrefix(reason, "FIREBASE_REFRESH_FAILED_") THEN jsonReauthRequired
       ELSE IF NotFoundError(handler) # "" /\ IsDocumentNotFound(reason)
            THEN JsonError(404, NotFoundError(handler))
       ELSE JsonError(500, GenericError(handler))

\* the catch block of each handler (reinvite/route.ts:188-209, part_006:168-179
\* and 243-252, part_003:362-384, part_002:149-163, chores/[choreId]/route.ts:86-104)
MapError(handler, e) ==
    LET reason == Reason(handler, e)
    IN IF handler \in { "summary", "addMember" } /\ IsDatabaseMissing(reason)
       THEN jsonFirestoreNotConfigured
       ELSE IF IncludesStatus(reason, "FIRESTORE_HTTP_", 401) THEN jsonReauthRequired
       ELSE IF IncludesPrefix(reason, "FIREBASE_REFRESH_FAILED_") THEN jsonReauthRequired
       ELSE IF IncludesStatus(reason, "FIRESTORE_HTTP_", 403) THEN jsonFirestoreForbidden
       ELSE IF NotFoundError(handler) # "" /\ IsDocumentNotFound(reason)
            THEN JsonError(404, NotFoundError(handler))
       ELSE JsonError(500, GenericError(handler))

-----------------------------------------------------------------------------
(* runWithRefreshedFirebaseToken: request-session.ts:23-99 *)

\* the retry test that lets every failure through to the refresh
ShouldRefresh_Any(e) == TRUE

\* request-session.ts:88-91: the failures of the first attempt that lead to a refresh
ShouldRefresh(e) ==
    \/ isFirestoreUnauthorizedError(e)
    \/ e.kind = "Error" /\ e.msg = MissingIdTokenError.msg

\* a wrapper that treats a failure of the second attempt like one of the first
NextAfterFailure_RetryAgain(attemptNo, e) == IF ShouldRefresh(e) THEN "refresh" ELSE "catch"

\* request-session.ts:84-98: where control goes when attempt attemptNo failed with e;
\* only the first attempt is inside the try
NextAfterFailure(attemptNo, e) ==
    IF attemptNo = 1 /\ ShouldRefresh(e) THEN "refresh" ELSE "catch"

Exchange(status, detail, user_id, id_token, refresh_token) ==
    [status |-> status, detail |-> detail, user_id |-> user_id,
     id_token |-> id_token, refresh_token |-> refresh_token]

\* what securetoken.googleapis.com may answer (status 0: the fetch itself failed)
ExchangeResponses(session) ==
    { Exchange(200, <<>>, session.uid, "idNew", "rtNew"),
      Exchange(200, <<>>, "intruder", "idForeign", "rtForeign"),
      Exchange(200, <<>>, session.uid, "", "rtNew"),
      Exchange(400, <<Word("TOKEN_EXPIRED", 0, 14)>>, "", "", ""),
      Exchange(403, <<>>, "", "", ""),
      Exchange(0, <<>>, "", "", "") }

RefreshResult(err, session) == [err |-> err, session |-> session]

\* the refresh with the identity check left out
AfterExchange_NoUidCheck(session, x) ==
    IF x.status = 0 THEN RefreshResult(FetchFailedError, NoUser)
    ELSE IF x.status # 200 THEN RefreshResult(RefreshFailedError(x.status, x.detail), NoUser)
    ELSE RefreshResult(NoError,
                       [session EXCEPT !.firebaseIdToken = x.id_token,
                                       !.firebaseRefreshToken = x.refresh_token])

\* the refresh that takes the uid from the answer of the exchange
AfterExchange_UidOfAnswer(session, x) ==
    IF x.status = 0 THEN RefreshResult(FetchFailedError, NoUser)
    ELSE IF x.status # 200 THEN RefreshResult(RefreshFailedError(x.status, x.detail), NoUser)
    ELSE RefreshResult(NoError,
                       [session EXCEPT !.uid = x.user_id,
                                       !.firebaseIdToken = x.id_token,
                                       !.firebaseRefreshToken = x.refresh_token])

\* request-session.ts:44-66: refreshFirebaseSession after the fetch answered x
AfterExchange(session, x) ==
    IF x.status = 0 THEN RefreshResult(FetchFailedError, NoUser)
    ELSE IF x.status # 200 THEN RefreshResult(RefreshFailedError(x.status, x.detail), NoUser)
    ELSE IF x.user_id # session.uid THEN RefreshResult(UidMismatchError, NoUser)
    ELSE RefreshResult(NoError,
                       [session EXCEPT !.firebaseIdToken = x.id_token,
                                       !.firebaseRefreshToken = x.refresh_token])

Outcome(throws, kind, err) == [throws |-> throws, kind |-> kind, err |-> err]

\* failures that can leave a work function: the errors of requestFirestore
\* (session.ts:139-148), a failed fetch, and values that are no Error
WorkErrors ==
    { FirestoreHttpError(401, <<>>),
      FirestoreHttpError(403, PermissionDenied),
      FirestoreHttpError(404, DocumentNotFound(100)),
      FirestoreHttpError(404, DocumentNotFound(170)),
      FirestoreHttpError(404, DatabaseMissing),
      FirestoreHttpError(500, <<>>),
      FetchFailedError,
      ProjectIdMissingError,
      NewError(<<>>),
      NonErrorThrow }

\* a work function seen from the wrapper: it returns a result or throws
WorkOutcomes(handler) ==
    { Outcome(FALSE, k, NoError) : k \in Kinds(handler) }
        \cup { Outcome(TRUE, "", e) : e \in WorkErrors }

-----------------------------------------------------------------------------
(* A request through a handler *)

ServerSecret == Secret(TRUE, MinSecretLength, "k32")

RequestUsers ==
    Users \cup
    { SessionUser("u4", "player", "d@x", "idD", UNDEF),
      SessionUser("", "player", "e@x", "idE", "rtE"),
      SessionUser("u6", "player", " ", "idF", "rtF") }

TamperedCookie ==
    LET good == createSessionToken(CHOOSE u \in Users : u.uid = "u1", ServerSecret, 0)
    IN <<good[1], Dot>> \o sign(<<good[1]>>, ForeignKey.id)

RequestCookies ==
    { Undefined, TamperedCookie }
        \cup { createSessionToken(u, ServerSecret, 0) : u \in RequestUsers }

\* bounds of the request bodies
MaxStringLength == 2
MaxTitles == 1

BodyChars == { "a", " ", "\t" }

RECURSIVE StringsUpTo(_)
StringsUpTo(n) ==
    IF n = 0 THEN { <<>> }
    ELSE StringsUpTo(n - 1)
             \cup { Append(str, c) : str \in { x \in StringsUpTo(n - 1) : Len(x) = n - 1 },
                                     c \in BodyChars }

BodyStrings == StringsUpTo(MaxStringLength) \cup { <<"L">> }

TitleEntries == { JsNumber, JsString(<<>>), JsString(<<" ">>), JsString(<<"a">>), JsString(<<"L">>) }

RECURSIVE EntryLists(_)
EntryLists(n) ==
    IF n = 0 THEN { <<>> }
    ELSE EntryLists(n - 1)
             \cup { Append(l, e) : l \in { x \in EntryLists(n - 1) : Len(x) = n - 1 },
                                   e \in TitleEntries }

ChoreBodies ==
    { Body("object", d, t, JsUndefined, JsUndefined) :
        d \in { JsUndefined, JsNumber } \cup { JsString(str) : str \in BodyStrings },
        t \in { JsUndefined, JsNumber } \cup { JsArray(l) : l \in EntryLists(MaxTitles) } }
        \cup { NullBody }

MemberBodies ==
    { Body("object", JsUndefined, JsUndefined, n, e) :
        n \in { JsUndefined, JsNumber }
                 \cup { JsString(str) : str \in { <<"a">>, <<"a", "a">>, <<" ", "a", "a">>, <<"L">> } },
        e \in { JsUndefined, JsNumber }
                 \cup { JsString(str) : str \in { <<"a", "@", "a", ".", "a">>, <<"a", "@", "a">>,
                                                  <<"@", "a", ".", "a">> } } }
        \cup { NullBody }

\* requests to every handler, with every cookie and a few bodies
Requests ==
    { Request(h, c, "", TRUE, NoBody) :
        h \in { "summary", "accept", "choresList", "suggestions" }, c \in RequestCookies }
      \cup { Request(h, c, id, TRUE, NoBody) :
               h \in { "reinvite", "choresDelete" }, c \in RequestCookies, id \in { "", "m1" } }
      \cup { Request("choresCreate", c, "", TRUE, b) :
               c \in RequestCookies,
               b \in { NoBody, NullBody,
                       Body("object", JsString(<<"a">>), JsUndefined, JsUndefined, JsUndefined) } }
      \cup { Request("addMember", c, "", TRUE, b) :
               c \in RequestCookies,
               b \in { NoBody, NullBody,
                       Body("object", JsUndefined, JsUndefined, JsString(<<"a", "a">>),
                            JsUndefined) } }
      \cup { Request(h, c, "", FALSE, NoBody) :
               h \in { "choresCreate", "addMember" }, c \in RequestCookies }

\* requests to the two handlers that read a body, with every body and a few cookies
BodyRequests ==
    LET cookies == { Undefined }
                     \cup { createSessionToken(u, ServerSecret, 0) :
                              u \in { x \in RequestUsers : x.uid \in { "u1", "u3", "u4" } } }
    IN { Request("choresCreate", c, "", TRUE, b) : c \in cookies, b \in ChoreBodies }
         \cup { Request("addMember", c, "", TRUE, b) : c \in cookies, b \in MemberBodies }

InitRequest ==
    /\ secret = ServerSecret
    /\ nowMs = 0
    /\ ticks = 0
    /\ token = Undefined
    /\ edits = 0
    /\ issued = NotIssued
    /\ parsed = NotParsed
    /\ apiKey \in BOOLEAN
    /\ IdleServer
    /\ IdleStore

\* the first lines of a handler on request req: the request with its session,
\* and either the response that ends it or the entry into the wrapper
Admit(req) ==
    LET sessionResult == getSessionFromRequest(req.cookie)
        auth == Authenticate(sessionResult)
        invalid == Validate(req, sessionResult.user)
    IN [request |-> [req EXCEPT !.session = sessionResult.user],
        response |-> IF auth # NoResponse THEN auth ELSE invalid,
        pc |-> IF auth # NoResponse \/ invalid # NoResponse THEN "done" ELSE "attempt1"]

\* a request arrives: the handler authenticates and validates it
HandleRequest(req) ==
    /\ pc = "idle"
    /\ request' = Admit(req).request
    /\ response' = Admit(req).response
    /\ pc' = Admit(req).pc
    /\ run' = NoRun
    /\ UNCHANGED <<apiKey>>
    /\ UNCHANGED sessionVars
    /\ UNCHANGED storeVars

\* request-session.ts:73-81: what the wrapper does with the session's tokens
\* before the work function can start
FirstAttemptEntry(session) ==
    IF Falsy(session.firebaseIdToken) /\ Falsy(session.firebaseRefreshToken)
    THEN "missing_session"
    ELSE IF Falsy(session.firebaseIdToken) THEN "missing_token"
    ELSE "work"

\* the wrapper state when the first attempt ended before the work function ran
RejectedAtEntry(r, entry) ==
    IF entry = "missing_session" THEN [r EXCEPT !.thrown = MissingSessionError]
    ELSE IF NextAfterFailure(1, MissingIdTokenError) = "refresh"
    THEN [r EXCEPT !.attempts = 1, !.caught = MissingIdTokenError,
                   !.errors = Append(r.errors, MissingIdTokenError)]
    ELSE [r EXCEPT !.attempts = 1, !.thrown = MissingIdTokenError,
                   !.errors = Append(r.errors, MissingIdTokenError)]

PcAfterEntry(entry) ==
    IF entry = "missing_session" THEN "catch" ELSE NextAfterFailure(1, MissingIdTokenError)

\* the wrapper state after work(idToken) ended with outcome o in attempt attemptNo
AfterWork(r, attemptNo, idToken, session, o) ==
    LET called == [r EXCEPT !.attempts = attemptNo,
                            !.workCalls = r.workCalls + 1,
                            !.workTokens = r.workTokens \cup { idToken }]
    IN IF ~o.throws
       THEN [called EXCEPT !.data = o.kind, !.refreshed = (attemptNo = 2),
                           !.session = session]
       ELSE IF NextAfterFailure(attemptNo, o.err) = "refresh"
       THEN [called EXCEPT !.errors = Append(r.errors, o.err), !.caught = o.err]
       ELSE [called EXCEPT !.errors = Append(r.errors, o.err), !.thrown = o.err]

PcAfterWork(attemptNo, o) ==
    IF ~o.throws THEN "respond" ELSE NextAfterFailure(attemptNo, o.err)

\* request-session.ts:73-94: the entry check and the first attempt, with the
\* session's ID token; without an ID token attempt() throws before calling work
FirstAttempt ==
    /\ pc = "attempt1"
    /\ IF FirstAttemptEntry(request.session) # "work"
       THEN /\ run' = RejectedAtEntry(run, FirstAttemptEntry(request.session))
            /\ pc' = PcAfterEntry(FirstAttemptEntry(request.session))
       ELSE \E o \in WorkOutcomes(request.handler) :
               /\ run' = AfterWork(run, 1, request.session.firebaseIdToken,
                                   request.session, o)
               /\ pc' = PcAfterWork(1, o)
    /\ UNCHANGED <<apiKey, request, response>>
    /\ UNCHANGED sessionVars
    /\ UNCHANGED storeVars

\* request-session.ts:24-30: refreshFirebaseSession gives up before the fetch
RefreshWithoutExchange ==
    /\ pc = "refresh"
    /\ ~apiKey \/ Falsy(request.session.firebaseRefreshToken)
    /\ run' = [run EXCEPT !.thrown = IF ~apiKey THEN ApiKeyMissingError
                                     ELSE MissingRefreshTokenError]
    /\ pc' = "catch"
    /\ UNCHANGED <<apiKey, request, response>>
    /\ UNCHANGED sessionVars
    /\ UNCHANGED storeVars

\* request-session.ts:32-66: the refresh-token exchange
RefreshExchange ==
    /\ pc = "refresh"
    /\ apiKey /\ ~Falsy(request.session.firebaseRefreshToken)
    /\ \E x \in ExchangeResponses(request.session) :
          LET result == AfterExchange(request.session, x)
          IN /\ run' = [run EXCEPT !.exchanges = run.exchanges + 1,
                                   !.exchange = x,
                                   !.thrown = result.err,
                                   !.session = result.session]
             /\ pc' = IF result.err = NoError THEN "attempt2" ELSE "catch"
    /\ UNCHANGED <<apiKey, request, response>>
    /\ UNCHANGED sessionVars
    /\ UNCHANGED storeVars

\* request-session.ts:97 without an ID token in the refreshed session
SecondAttemptWithoutToken ==
    /\ pc = "attempt2"
    /\ Falsy(run.session.firebaseIdToken)
    /\ pc' = NextAfterFailure(2, MissingIdTokenError)
    /\ run' = IF NextAfterFailure(2, MissingIdTokenError) = "refresh"
              THEN [run EXCEPT !.attempts = 2, !.caught = MissingIdTokenError,
                               !.errors = Append(run.errors, MissingIdTokenError)]
              ELSE [run EXCEPT !.attempts = 2, !.thrown = MissingIdTokenError,
                               !.errors = Append(run.errors, MissingIdTokenError)]
    /\ UNCHANGED <<apiKey, request, response>>
    /\ UNCHANGED sessionVars
    /\ UNCHANGED storeVars

\* request-session.ts:97-98: the second attempt, with the refreshed ID token
SecondAttempt ==
    /\ pc = "attempt2"
    /\ ~Falsy(run.session.firebaseIdToken)
    /\ \E o \in WorkOutcomes(request.handler) :
          /\ run' = AfterWork(run, 2, run.session.firebaseIdToken, run.session, o)
          /\ pc' = PcAfterWork(2, o)
    /\ UNCHANGED <<apiKey, request, response>>
    /\ UNCHANGED sessionVars
    /\ UNCHANGED storeVars

\* the wrapper returned: the handler answers from the result
Respond ==
    /\ pc = "respond"
    /\ response' = RespondTo(request.handler, run.data, run.refreshed, run.session)
    /\ pc' = "done"
    /\ UNCHANGED <<apiKey, request, run>>
    /\ UNCHANGED sessionVars
    /\ UNCHANGED storeVars

\* the wrapper threw: the handler's catch block answers
Catch ==
    /\ pc = "catch"
    /\ response' = MapError(request.handler, run.thrown)
    /\ pc' = "done"
    /\ UNCHANGED <<apiKey, request, run>>
    /\ UNCHANGED sessionVars
    /\ UNCHANGED storeVars

NextRequest ==
    \/ \E req \in Requests : HandleRequest(req)
    \/ FirstAttempt
    \/ RefreshWithoutExchange
    \/ RefreshExchange
    \/ SecondAttemptWithoutToken
    \/ SecondAttempt
    \/ Respond
    \/ Catch

SpecRequest == InitRequest /\ [][NextRequest]_vars

InitValidate == InitRequest /\ apiKey

NextValidate ==
    \/ \E req \in BodyRequests : HandleRequest(req)
    \/ FirstAttempt
    \/ RefreshWithoutExchange
    \/ RefreshExchange
    \/ SecondAttemptWithoutToken
    \/ SecondAttempt
    \/ Respond
    \/ Catch

SpecValidate == InitValidate /\ [][NextValidate]_vars

-----------------------------------------------------------------------------
(* Re-invite over the document store: reinvite/route.ts:43-210 *)

\* number of requests in a row
MaxCalls == 2

FamilyId == "f1"

Returns(kind) == Outcome(FALSE, kind, NoError)

\* requestFirestore with an ID token Firestore rejects: session.ts:139-148
Unauthorized == Outcome(TRUE, "", FirestoreHttpError(401, <<>>))

\* getDocument of a document that is not there
Missing == Outcome(TRUE, "", FirestoreHttpError(404, DocumentNotFound(100)))

\* readString(fields, "role") === "admin" ? "admin" : "player"
RoleOf(doc) == IF doc.role = "admin" THEN "admin" ELSE "player"

\* readStringArray(userDoc.fields, "familyIds")[0] ?? ""
PrimaryFamilyId(userDoc) == IF userDoc.familyIds = <<>> THEN "" ELSE Head(userDoc.familyIds)

Write(op, collection, id) == [op |-> op, collection |-> collection, id |-> id]

Answered(req, before, resp, writes, failed, refreshed) ==
    [request |-> req, before |-> before, response |-> resp, writes |-> writes,
     failed |-> failed, refreshed |-> refreshed]

ReinviteCookies ==
    { createSessionToken(u, ServerSecret, 0) : u \in { x \in Users : x.uid \in UserIds } }

ReinviteRequests ==
    { Request("reinvite", c, id, TRUE, NoBody) : c \in ReinviteCookies, id \in { "m1", "e@x", "u1" } }

LegacyDocs ==
    { MemberDoc(uid, email, "player", "invited", deleted) :
        uid \in { "", "u1", "u9" }, email \in { "e@x", " E@x ", "" }, deleted \in BOOLEAN }
        \cup { NoDoc }

EmailKeyedDocs ==
    { NoDoc, MemberDoc("", "e@x", "player", "invited", FALSE),
      MemberDoc("", "e@x", "player", "invited", TRUE) }

InitStores ==
    { Store([u \in UserIds |-> IF u = "u1" THEN admin ELSE UserDoc(<<FamilyId>>)],
            [m \in MemberIds |->
                CASE m = "u1" -> MemberDoc("u1", "a@x", "admin", "active", FALSE)
                  [] m = "u2" -> MemberDoc("u2", "b@x", "player", "active", FALSE)
                  [] m = "m1" -> legacy
                  [] OTHER -> keyed],
            [e \in LookupIds |-> NoLookup]) :
        admin \in { UserDoc(<<FamilyId>>), UserDoc(<<>>), NoUserDoc },
        legacy \in LegacyDocs,
        keyed \in EmailKeyedDocs }

InitReinvite ==
    /\ secret = ServerSecret
    /\ nowMs = 0
    /\ ticks = 0
    /\ token = Undefined
    /\ edits = 0
    /\ issued = NotIssued
    /\ parsed = NotParsed
    /\ apiKey \in BOOLEAN
    /\ IdleServer
    /\ store \in InitStores
    /\ expired = {}
    /\ work = NoWork
    /\ history = <<>>

\* reinvite/route.ts:48-63
ReinviteRequest(req) ==
    /\ pc = "idle"
    /\ Len(history) < MaxCalls
    /\ request' = Admit(req).request
    /\ response' = Admit(req).response
    /\ pc' = Admit(req).pc
    /\ run' = NoRun
    /\ work' = [NoWork EXCEPT !.before = store]
    /\ UNCHANGED <<apiKey, store, expired, history>>
    /\ UNCHANGED sessionVars

\* request-session.ts:73-86: the first attempt enters the work function
BeginFirstAttempt ==
    /\ pc = "attempt1"
    /\ IF FirstAttemptEntry(request.session) # "work"
       THEN /\ run' = RejectedAtEntry(run, FirstAttemptEntry(request.session))
            /\ pc' = PcAfterEntry(FirstAttemptEntry(request.session))
            /\ UNCHANGED work
       ELSE /\ work' = [work EXCEPT !.step = "getUser", !.attempt = 1,
                                    !.idToken = request.session.firebaseIdToken]
            /\ pc' = "work"
            /\ UNCHANGED run
    /\ UNCHANGED <<apiKey, request, response, store, expired, history>>
    /\ UNCHANGED sessionVars

\* request-session.ts:97: the second attempt enters the work function
BeginSecondAttempt ==
    /\ pc = "attempt2"
    /\ ~Falsy(run.session.firebaseIdToken)
    /\ work' = [work EXCEPT !.step = "getUser", !.attempt = 2,
                            !.idToken = run.session.firebaseIdToken]
    /\ pc' = "work"
    /\ UNCHANGED <<apiKey, request, response, run, store, expired, history>>
    /\ UNCHANGED sessionVars

\* the ID token in use runs out between two Firestore calls
ExpireToken ==
    /\ pc = "work"
    /\ work.idToken \notin expired
    /\ expired' = expired \cup { work.idToken }
    /\ UNCHANGED <<apiKey, request, response, run, pc, store, work, history>>
    /\ UNCHANGED sessionVars

\* the work function returns or throws: control is back in the wrapper
EndWork(o, writes) ==
    /\ run' = AfterWork(run, work.attempt, work.idToken,
                        IF work.attempt = 1 THEN request.session ELSE run.session, o)
    /\ pc' = PcAfterWork(work.attempt, o)
    /\ work' = [work EXCEPT !.step = "none", !.writes = writes]

\* the work function goes on to its next Firestore call
Continue(next) ==
    /\ work' = next
    /\ UNCHANGED <<run, pc>>

\* the Firestore call that follows getPrimaryFamilyId in each work function
AfterFamilyId(handler) ==
    CASE handler = "choresCreate" -> "putChore"
      [] handler = "choresDelete" -> "patchChore"
      [] OTHER -> "getRequester"

\* reinvite/route.ts:43-46 and 68-71: getPrimaryFamilyId
GetUserDoc ==
    /\ pc = "work" /\ work.step = "getUser"
    /\ LET userDoc == store.users[request.session.uid]
       IN IF work.idToken \in expired THEN EndWork(Unauthorized, work.writes)
          ELSE IF ~userDoc.exists THEN EndWork(Missing, work.writes)
          ELSE IF PrimaryFamilyId(userDoc) = ""
          THEN EndWork(Returns("family_not_found"), work.writes)
          ELSE Continue([work EXCEPT !.step = AfterFamilyId(request.handler),
                                     !.familyId = PrimaryFamilyId(userDoc)])
    /\ UNCHANGED <<apiKey, request, response, store, expired, history>>
    /\ UNCHANGED sessionVars

\* the requester's document is read and its role is not looked at
GetRequesterDoc_AnyRole ==
    /\ pc = "work" /\ work.step = "getRequester"
    /\ IF work.idToken \in expired THEN EndWork(Unauthorized, work.writes)
       ELSE IF ~store.members[request.session.uid].exists THEN EndWork(Missing, work.writes)
       ELSE Continue([work EXCEPT !.step = "getMember"])
    /\ UNCHANGED <<apiKey, request, response, store, expired, history>>
    /\ UNCHANGED sessionVars

\* reinvite/route.ts:73-80: only an admin may re-invite
GetRequesterDoc ==
    /\ pc = "work" /\ work.step = "getRequester"
    /\ LET requesterMemberDoc == store.members[request.session.uid]
       IN IF work.idToken \in expired THEN EndWork(Unauthorized, work.writes)
          ELSE IF ~requesterMemberDoc.exists THEN EndWork(Missing, work.writes)
          ELSE IF requesterMemberDoc.role # "admin"
          THEN EndWork(Returns("not_allowed"), work.writes)
          ELSE Continue([work EXCEPT !.step = "getMember"])
    /\ UNCHANGED <<apiKey, request, response, store, expired, history>>
    /\ UNCHANGED sessionVars

\* reinvite/route.ts:82-105: read the target member and choose the branch
GetMemberDoc ==
    /\ pc = "work" /\ work.step = "getMember"
    /\ LET memberDoc == store.members[request.id]
           memberEmail == NormalizeEmail(memberDoc.email)
       IN IF work.idToken \in expired THEN EndWork(Unauthorized, work.writes)
          ELSE IF ~memberDoc.exists THEN EndWork(Missing, work.writes)
          ELSE IF request.id = request.session.uid \/ memberDoc.uid = request.session.uid
          THEN EndWork(Returns("cannot_reinvite_self"), work.writes)
          ELSE IF memberEmail = ""
          THEN EndWork(Returns("member_email_required"), work.writes)
          ELSE IF memberDoc.deleted
          THEN EndWork(Returns("member_not_found"), work.writes)
          ELSE IF memberDoc.uid = "" /\ memberEmail # request.id
          THEN Continue([work EXCEPT !.step = "putEmailKeyed", !.member = memberDoc])
          ELSE Continue([work EXCEPT !.step = "patchInvited", !.member = memberDoc])
    /\ UNCHANGED <<apiKey, request, response, store, expired, history>>
    /\ UNCHANGED sessionVars

\* reinvite/route.ts:106-119: the e-mail keyed member document replaces what is there
PutEmailKeyedMember ==
    /\ pc = "work" /\ work.step = "putEmailKeyed"
    /\ LET memberEmail == NormalizeEmail(work.member.email)
       IN IF work.idToken \in expired
          THEN EndWork(Unauthorized, work.writes) /\ UNCHANGED store
          ELSE /\ store' = [store EXCEPT !.members[memberEmail] =
                               MemberDoc("", memberEmail, RoleOf(work.member),
                                         "invited", FALSE)]
               /\ Continue([work EXCEPT !.step = "patchLegacy",
                                        !.writes = Append(work.writes,
                                                          Write("put", "members", memberEmail))])
    /\ UNCHANGED <<apiKey, request, response, expired, history>>
    /\ UNCHANGED sessionVars

\* reinvite/route.ts:120-128: the legacy document is marked deleted
PatchLegacyDeleted ==
    /\ pc = "work" /\ work.step = "patchLegacy"
    /\ IF work.idToken \in expired
       THEN EndWork(Unauthorized, work.writes) /\ UNCHANGED store
       ELSE /\ store' = [store EXCEPT !.members[request.id].exists = TRUE,
                                      !.members[request.id].deleted = TRUE]
            /\ Continue([work EXCEPT !.step = "putLookup",
                                     !.writes = Append(work.writes,
                                                       Write("patch", "members", request.id))])
    /\ UNCHANGED <<apiKey, request, response, expired, history>>
    /\ UNCHANGED sessionVars

\* reinvite/route.ts:143-151: a member that needs no migration is set to invited
PatchInvited ==
    /\ pc = "work" /\ work.step = "patchInvited"
    /\ IF work.idToken \in expired
       THEN EndWork(Unauthorized, work.writes) /\ UNCHANGED store
       ELSE /\ store' = [store EXCEPT !.members[request.id].exists = TRUE,
                                      !.members[request.id].status = "invited"]
            /\ Continue([work EXCEPT !.step = "putLookup",
                                     !.writes = Append(work.writes,
                                                       Write("patch", "members", request.id))])
    /\ UNCHANGED <<apiKey, request, response, expired, history>>
    /\ UNCHANGED sessionVars

\* reinvite/route.ts:129-140 and 152-164: inviteLookup/<email>, then { kind: "ok" }
PutInviteLookup ==
    /\ pc = "work" /\ work.step = "putLookup"
    /\ LET memberEmail == NormalizeEmail(work.member.email)
       IN IF work.idToken \in expired
          THEN EndWork(Unauthorized, work.writes) /\ UNCHANGED store
          ELSE /\ store' = [store EXCEPT !.lookups[memberEmail] =
                               LookupDoc(memberEmail, work.familyId, RoleOf(work.member),
                                         "invited")]
               /\ EndWork(Returns("ok"),
                          Append(work.writes, Write("put", "inviteLookup", memberEmail)))
    /\ UNCHANGED <<apiKey, request, response, expired, history>>
    /\ UNCHANGED sessionVars

\* the response went out; the next request may come
NextCall ==
    /\ pc = "done"
    /\ Len(history) < MaxCalls
    /\ history' = Append(history,
                         Answered(request, work.before, response, work.writes,
                                  run.thrown # NoError, run.refreshed))
    /\ pc' = "idle"
    /\ request' = NoRequest
    /\ run' = NoRun
    /\ response' = NoResponse
    /\ work' = NoWork
    /\ UNCHANGED <<apiKey, store, expired>>
    /\ UNCHANGED sessionVars

NextReinvite ==
    \/ \E req \in ReinviteRequests : ReinviteRequest(req)
    \/ BeginFirstAttempt
    \/ ExpireToken
    \/ GetUserDoc
    \/ GetRequesterDoc
    \/ GetMemberDoc
    \/ PutEmailKeyedMember
    \/ PatchLegacyDeleted
    \/ PatchInvited
    \/ PutInviteLookup
    \/ RefreshWithoutExchange
    \/ RefreshExchange
    \/ SecondAttemptWithoutToken
    \/ BeginSecondAttempt
    \/ Respond
    \/ Catch
    \/ NextCall

SpecReinvite == InitReinvite /\ [][NextReinvite]_vars

-----------------------------------------------------------------------------
(* Properties of the session codec *)

PayloadPart(tok) == Split(tok)[1]
SignaturePart(tok) == IF Len(Split(tok)) >= 2 THEN Split(tok)[2] ELSE <<>>

\* the signature part is exactly the digest of the payload part under SESSION_SECRET
WellSigned(tok, s) ==
    /\ tok # Undefined
    /\ SignaturePart(tok) = <<Mac(PayloadPart(tok), s.id)>>

PayloadText(tok) == Base64Decode(PayloadPart(tok))

\* C1: parseSessionToken returns null for every token whose signature part is
\* not exactly the HMAC of its payload part under SESSION_SECRET; a token made
\* by createSessionToken whose payload part or signature part was altered
\* never yields a user.
C1_BadSignatureIsNull ==
    parsed # NotParsed =>
        /\ ~WellSigned(token, secret) => parsed = Null
        /\ ( /\ issued.live
             /\ \/ PayloadPart(token) # PayloadPart(issued.token)
                \/ SignaturePart(token) # SignaturePart(issued.token) )
           => parsed = Null

\* an issued token whose signature was swapped for a digest of the same
\* payload under another key has been parsed
C1_Witness ==
    /\ issued.live /\ issued.token # Undefined
    /\ edits > 0
    /\ PayloadPart(token) = PayloadPart(issued.token)
    /\ SignaturePart(token) = <<Mac(PayloadPart(token), ForeignKey.id)>>
    /\ parsed = Null

\* C2: a correctly signed token whose exp is missing, zero or earlier than the
\* current time in seconds parses as null; a token issued by createSessionToken
\* parses as null once more than SESSION_MAX_AGE_SECONDS seconds of the clock
\* have passed since it was issued.
C2_ExpiredIsNull ==
    parsed # NotParsed =>
        /\ ( /\ WellSigned(token, secret)
             /\ PayloadText(token).kind = "object"
             /\ \/ ~HasMember(PayloadText(token), "exp")
                \/ GetMember(PayloadText(token), "exp").n = 0
                \/ GetMember(PayloadText(token), "exp").n < NowSeconds(nowMs) )
           => parsed = Null
        /\ ( /\ issued.live
             /\ token = issued.token
             /\ NowSeconds(nowMs) - NowSeconds(issued.atMs) > SESSION_MAX_AGE_SECONDS )
           => parsed = Null

\* an issued, untouched token has been parsed more than seven days later,
\* under a usable secret
C2_Witness ==
    /\ issued.live /\ issued.token # Undefined
    /\ token = issued.token
    /\ NowSeconds(nowMs) - NowSeconds(issued.atMs) > SESSION_MAX_AGE_SECONDS
    /\ parsed = Null

\* the inputs C3 lists
Malformed(tok, s) ==
    \/ tok = Undefined \/ tok = <<>>
    \/ Len(Split(tok)) < 2
    \/ PayloadPart(tok) = <<>> \/ SignaturePart(tok) = <<>>
    \/ ~WellSigned(tok, s)
    \/ PayloadText(tok).kind = "garbage"
    \/ ~s.isSet \/ s.len < MinSecretLength

\* C3: parseSessionToken never throws; for an undefined or empty token, a token
\* without a '.', an empty payload or signature part, a bad signature, a signed
\* payload that is no JSON, or an unset or short SESSION_SECRET it returns null.
C3_NeverThrows ==
    parsed # NotParsed =>
        /\ parsed.kind \in {"null", "user"}
        /\ Malformed(token, secret) => parsed = Null

\* a correctly signed payload that is no JSON text has been parsed
C3_Witness ==
    /\ WellSigned(token, secret)
    /\ getSecret(secret) # UNDEF
    /\ PayloadText(token).kind = "garbage"
    /\ parsed = Null

-----------------------------------------------------------------------------
(* Properties of the refresh wrapper and of the handlers *)

Has401(e) ==
    e.kind = "Error" /\ \E i \in 1..Len(e.msg) :
                            e.msg[i].w = "FIRESTORE_HTTP_" /\ e.msg[i].status = 401

Has403(e) ==
    e.kind = "Error" /\ \E i \in 1..Len(e.msg) :
                            e.msg[i].w = "FIRESTORE_HTTP_" /\ e.msg[i].status = 403

HasRefreshFailed(e) ==
    e.kind = "Error" /\ \E i \in 1..Len(e.msg) : e.msg[i].w = "FIREBASE_REFRESH_FAILED_"

IsMissingIdToken(e) ==
    e.kind = "Error" /\ e.msg = <<Word("MISSING_FIREBASE_ID_TOKEN", 0, 25)>>

\* C4: in one call of runWithRefreshedFirebaseToken the refresh-token exchange
\* happens at most once and the work function runs at most twice; a second attempt
\* is made only after the first failed with FIRESTORE_HTTP_401 or for want of an ID
\* token, and when the second attempt fails its error leaves the wrapper at once,
\* with no further refresh or attempt.
C4_RefreshOnceRetryOnce ==
    /\ run.exchanges <= 1
    /\ run.workCalls <= 2
    /\ run.attempts <= 2
    /\ Len(run.errors) <= 2
    /\ run.attempts = 2 =>
          /\ run.exchanges = 1
          /\ Len(run.errors) >= 1
          /\ Has401(run.errors[1]) \/ IsMissingIdToken(run.errors[1])
          /\ pc \in { "respond", "catch", "done" }
    /\ run.workCalls = 2 => Has401(run.errors[1])
    /\ Len(run.errors) = 2 =>
          /\ run.attempts = 2
          /\ run.thrown = run.errors[2]
          /\ pc \in { "catch", "done" }

\* both attempts ran the work, both answered 401, and the second 401 reached the handler
C4_Witness ==
    /\ pc = "done"
    /\ run.workCalls = 2
    /\ run.exchanges = 1
    /\ Len(run.errors) = 2
    /\ Has401(run.errors[2])
    /\ response.error = "reauth_required"

\* C5: when the first attempt fails with anything but FIRESTORE_HTTP_401 or a
\* missing ID token, that same error leaves the wrapper unchanged, no refresh-token
\* exchange is made and the work function is not run a second time.
C5_OtherFailuresPropagate ==
    (Len(run.errors) >= 1 /\ ~Has401(run.errors[1]) /\ ~IsMissingIdToken(run.errors[1])) =>
        /\ run.thrown = run.errors[1]
        /\ Len(run.errors) = 1
        /\ run.exchanges = 0
        /\ run.workCalls = 1
        /\ run.attempts = 1
        /\ pc \in { "catch", "done" }

\* a value that is no Error object went through the wrapper untouched
C5_Witness ==
    /\ pc = "done"
    /\ Len(run.errors) = 1
    /\ run.errors[1] = NonErrorThrow
    /\ run.thrown = NonErrorThrow
    /\ run.exchanges = 0
    /\ response.status = 500

ForeignExchange ==
    /\ run.exchanges >= 1
    /\ run.exchange.status = 200
    /\ run.exchange.user_id # request.session.uid

\* C6: if the exchange returns a user_id other than the session's uid the wrapper
\* fails with FIREBASE_REFRESH_UID_MISMATCH: the work function never runs with the
\* foreign ID token, no refreshed session is returned, and the handler answers
\* with an error response that sets no session cookie.
C6_UidMismatchIsFatal ==
    ForeignExchange =>
        /\ run.thrown = NewError(<<Word("FIREBASE_REFRESH_UID_MISMATCH", 0, 29)>>)
        /\ run.exchange.id_token \notin run.workTokens
        /\ run.attempts = 1
        /\ run.session = NoUser
        /\ ~run.refreshed
        /\ pc \in { "catch", "done" }
        /\ pc = "done" => /\ response.status >= 400
                          /\ response.error # ""
                          /\ ~response.setCookie
                          /\ response.cookie = NoUser

C6_Witness ==
    /\ pc = "done"
    /\ ForeignExchange
    /\ run.workCalls = 1
    /\ response.status = 500
    /\ ~response.setCookie

\* cookies the server issued to a signed-in user
IssuedTo(u) == u.uid # "" /\ request.cookie = createSessionToken(u, ServerSecret, 0)

NoFirestoreNoRefresh == run.workCalls = 0 /\ run.exchanges = 0 /\ run.attempts = 0

\* C9: every data handler authenticates first: without a valid session cookie the
\* answer is 401 unauthorized, with a session that holds neither an ID token nor a
\* refresh token it is 401 reauth_required, whatever else the request carries; in
\* both cases no Firestore call and no refresh exchange is made.
C9_AuthenticationFirst ==
    pc # "idle" =>
        /\ (\A u \in RequestUsers : ~IssuedTo(u)) =>
              /\ pc = "done"
              /\ response.status = 401
              /\ response.error = "unauthorized"
              /\ NoFirestoreNoRefresh
        /\ \A u \in RequestUsers :
              (IssuedTo(u) /\ u.firebaseIdToken = UNDEF /\ u.firebaseRefreshToken = UNDEF) =>
                  /\ pc = "done"
                  /\ response.status = 401
                  /\ response.error = "reauth_required"
                  /\ NoFirestoreNoRefresh

\* a token-less session posts a body that is no JSON and is told to sign in again
C9_Witness ==
    /\ pc = "done"
    /\ request.handler = "addMember"
    /\ ~request.jsonOk
    /\ \E u \in RequestUsers :
          IssuedTo(u) /\ u.firebaseIdToken = UNDEF /\ u.firebaseRefreshToken = UNDEF
    /\ response.error = "reauth_required"
    /\ NoFirestoreNoRefresh


SignedIn ==
    \E u \in RequestUsers :
        IssuedTo(u) /\ (u.firebaseIdToken # UNDEF \/ u.firebaseRefreshToken # UNDEF)

Blank(str) == \A i \in 1..Len(str) : str[i] \in { " ", "\t" }

\* description absent or blank, and titles absent or without a non-blank string
NoUsableDescription(body) ==
    /\ body.description.type = "string" => Blank(body.description.str)
    /\ body.titles.type = "array" =>
          \A i \in 1..Len(body.titles.items) :
              body.titles.items[i].type = "string" => Blank(body.titles.items[i].str)

\* C8: POST /api/chores from a signed-in session whose JSON body holds no usable
\* description (description absent or blank after whitespace normalization, titles
\* absent or without a non-blank string) is answered 400 description_required, and
\* no Firestore read or write and no token refresh is made.
C8_DescriptionRequired ==
    (/\ pc # "idle"
     /\ request.handler = "choresCreate"
     /\ SignedIn
     /\ request.jsonOk
     /\ NoUsableDescription(request.body)) =>
        /\ pc = "done"
        /\ response.status = 400
        /\ response.error = "description_required"
        /\ NoFirestoreNoRefresh

HasDocumentNotFound(e) ==
    /\ e.kind = "Error"
    /\ \E i \in 1..Len(e.msg) : e.msg[i].w = "FIRESTORE_HTTP_" /\ e.msg[i].status = 404
    /\ \E i \in 1..Len(e.msg) : e.msg[i].w = "Document"
    /\ \E i \in 1..Len(e.msg) : e.msg[i].w = "not found"

HasDatabaseMissing(e) ==
    /\ e.kind = "Error"
    /\ \E i \in 1..Len(e.msg) : e.msg[i].w = "FIRESTORE_HTTP_" /\ e.msg[i].status = 404
    /\ \E i \in 1..Len(e.msg) : e.msg[i].w = "database (default) does not exist"

\* the handler caught a failure of the wrapper and answered it
AnsweredFailure == pc = "done" /\ run.thrown # NoError

\* status and code of the answer to a caught failure, as the claim gives them
MappedByMessage ==
    IF Has401(run.thrown) \/ HasRefreshFailed(run.thrown)
    THEN response.status = 401 /\ response.error = "reauth_required"
    ELSE IF Has403(run.thrown)
    THEN response.status = 403 /\ response.error = "firestore_forbidden"
    ELSE \/ response.status = 500 /\ response.error = GenericError(request.handler)
         \/ /\ response.status = 404
            /\ response.error \in { "member_not_found", "chore_not_found" }
            /\ HasDocumentNotFound(run.thrown)
         \/ /\ response.status = 503
            /\ response.error = "firestore_not_configured"
            /\ HasDatabaseMissing(run.thrown)

\* C10 as stated: a failure thrown by the wrapper is mapped by its message to a
\* fixed JSON error, and the body is always exactly {error: code}.
C10_BodyIsErrorCodeOnly ==
    AnsweredFailure => MappedByMessage /\ ~response.message /\ ~response.setCookie

\* C10: a failure thrown by the wrapper is mapped by its message: FIRESTORE_HTTP_401
\* or FIREBASE_REFRESH_FAILED gives 401 reauth_required, FIRESTORE_HTTP_403 gives 403
\* firestore_forbidden, everything else the handler's generic code with status 500
\* (404 and 503 only for document-not-found and database-missing messages). The body
\* always carries error: code; the bodies of reauth_required, firestore_forbidden and
\* firestore_not_configured carry a fixed message text as well.
C10_ErrorMapping ==
    AnsweredFailure =>
        /\ MappedByMessage
        /\ response.error # ""
        /\ response.message <=>
              response.error \in { "reauth_required", "firestore_forbidden",
                                   "firestore_not_configured" }
        /\ ~response.setCookie

\* a 403 of Firestore in the retry after a refresh is answered firestore_forbidden
C10_Witness ==
    /\ AnsweredFailure
    /\ run.attempts = 2
    /\ Has403(run.thrown)
    /\ response.status = 403
    /\ response.error = "firestore_forbidden"
    /\ response.message

-----------------------------------------------------------------------------
(* Properties of the re-invite handler *)

\* the caller of an answered request is an admin of the family
ByAdmin(call) ==
    LET uid == call.request.session.uid
    IN /\ uid \in UserIds
       /\ call.before.users[uid].exists
       /\ PrimaryFamilyId(call.before.users[uid]) = FamilyId
       /\ call.before.members[uid].exists
       /\ call.before.members[uid].role = "admin"

\* a legacy member document: random id, no uid, an e-mail address, not deleted
IsLegacy(doc) ==
    doc.exists /\ ~doc.deleted /\ doc.uid = "" /\ NormalizeEmail(doc.email) # ""

Wrote(call, w) == \E i \in 1..Len(call.writes) : call.writes[i] = w

LiveMembersWith(email) ==
    { m \in MemberIds : /\ store.members[m].exists
                        /\ ~store.members[m].deleted
                        /\ NormalizeEmail(store.members[m].email) = email }

\* two re-invite calls in a row on the legacy member m1 by an admin, both answered
\* from the result of the work function
TwoReinvitesOfLegacy ==
    /\ Len(history) = 2
    /\ \A i \in 1..2 : /\ history[i].request.id = "m1"
                       /\ ByAdmin(history[i])
                       /\ ~history[i].failed
    /\ IsLegacy(history[1].before.members["m1"])

\* C7: two consecutive re-invite calls by an admin on a non-deleted legacy member
\* (random id, no uid, non-empty e-mail) migrate it exactly once: the first call
\* writes the e-mail keyed member document (status invited, deleted false), marks
\* the legacy document deleted and writes inviteLookup/<email>; the second call
\* answers 404 member_not_found and writes nothing; exactly one non-deleted member
\* document for that e-mail is left.
C7_MigratesExactlyOnce ==
    TwoReinvitesOfLegacy =>
        LET first == history[1]
            second == history[2]
            email == NormalizeEmail(first.before.members["m1"].email)
        IN /\ Wrote(first, Write("put", "members", email))
           /\ Wrote(first, Write("patch", "members", "m1"))
           /\ Wrote(first, Write("put", "inviteLookup", email))
           /\ second.before.members[email].exists
           /\ second.before.members[email].status = "invited"
           /\ ~second.before.members[email].deleted
           /\ second.before.members["m1"].deleted
           /\ second.before.lookups[email].exists
           /\ second.response.status = 404
           /\ second.response.error = "member_not_found"
           /\ second.writes = <<>>
           /\ Cardinality(LiveMembersWith(email)) = 1

-----------------------------------------------------------------------------
(* Firestore values and the field helpers *)

\* JavaScript numbers: a finite one counts halves (3 is 1.5), so that Math.floor
\* has something to do; NaN and the infinities are values of their own
Num(halves) == [t |-> "finite", h |-> halves]
Integer(n) == Num(2 * n)
NaN == [t |-> "NaN", h |-> 0]
Infinity == [t |-> "Infinity", h |-> 0]
NegInfinity == [t |-> "-Infinity", h |-> 0]

isFinite(v) == v.t = "finite"
IsInteger(v) == v.t = "finite" /\ v.h % 2 = 0
IsNegative(v) == v.t = "-Infinity" \/ (v.t = "finite" /\ v.h < 0)

\* Math.floor
Floor(v) == IF isFinite(v) THEN Num(2 * (v.h \div 2)) ELSE v

\* Math.max(0, v): NaN stays NaN
Max0(v) ==
    CASE v.t = "NaN" -> NaN
      [] v.t = "Infinity" -> Infinity
      [] v.t = "-Infinity" -> Integer(0)
      [] OTHER -> IF v.h < 0 THEN Integer(0) ELSE v

\* v + 1
PlusOne(v) == IF isFinite(v) THEN Num(v.h + 2) ELSE v

DigitChars == <<"0", "1", "2", "3", "4", "5", "6", "7", "8", "9">>
IsDigit(c) == \E i \in 1..10 : DigitChars[i] = c
DigitValue(c) == (CHOOSE i \in 1..10 : DigitChars[i] = c) - 1

RECURSIVE Decimal(_)
\* the decimal digits of a natural number
Decimal(n) ==
    IF n < 10 THEN <<DigitChars[n + 1]>>
    ELSE Decimal(n \div 10) \o <<DigitChars[(n % 10) + 1]>>

\* String(v)
NumberToString(v) ==
    CASE v.t = "NaN" -> <<"NaN">>
      [] v.t = "Infinity" -> <<"Infinity">>
      [] v.t = "-Infinity" -> <<"-", "Infinity">>
      [] OTHER ->
           LET abs == IF v.h < 0 THEN 0 - v.h ELSE v.h
               minus == IF v.h < 0 THEN <<"-">> ELSE <<>>
               half == IF abs % 2 = 1 THEN <<".", "5">> ELSE <<>>
           IN minus \o Decimal(abs \div 2) \o half

AllDigits(str) == \A i \in 1..Len(str) : IsDigit(str[i])

RECURSIVE DigitsValue(_)
DigitsValue(str) ==
    IF str = <<>> THEN 0
    ELSE 10 * DigitsValue(SubSeq(str, 1, Len(str) - 1)) + DigitValue(str[Len(str)])

\* the position of the decimal point, 0 when there is none
PointAt(str) ==
    IF \E i \in 1..Len(str) : str[i] = "." THEN CHOOSE i \in 1..Len(str) : str[i] = "."
    ELSE 0

\* an unsigned decimal literal; the fractions of the inputs are .0 and .5
UnsignedNumber(str) ==
    LET p == PointAt(str)
        whole == IF p = 0 THEN str ELSE SubSeq(str, 1, p - 1)
        frac == IF p = 0 THEN <<>> ELSE SubSeq(str, p + 1, Len(str))
    IN IF str = <<"Infinity">> THEN Infinity
       ELSE IF ~AllDigits(whole) \/ ~AllDigits(frac) \/ (whole = <<>> /\ frac = <<>>) THEN NaN
       ELSE Num(2 * DigitsValue(whole) + (IF frac # <<>> /\ Head(frac) = "5" THEN 1 ELSE 0))

Negate(v) ==
    CASE v.t = "finite" -> Num(0 - v.h)
      [] v.t = "Infinity" -> NegInfinity
      [] v.t = "-Infinity" -> Infinity
      [] OTHER -> v

\* Number(str): white space around the literal is dropped, the empty string is 0
ToNumber(str) ==
    LET t == Trim(str)
    IN IF t = <<>> THEN Integer(0)
       ELSE IF Head(t) = "-" THEN Negate(UnsignedNumber(Tail(t)))
       ELSE IF Head(t) = "+" THEN UnsignedNumber(Tail(t))
       ELSE UnsignedNumber(t)

\* a Firestore value: {stringValue}, {integerValue}, {timestampValue},
\* {booleanValue}, {arrayValue: {values}}, {mapValue}, {nullValue}
FsValue(kind, text, flag, values) == [kind |-> kind, text |-> text, flag |-> flag, values |-> values]
NoValue == FsValue("undefined", <<>>, FALSE, <<>>)
StringValue(text) == FsValue("stringValue", text, FALSE, <<>>)
IntegerValue(text) == FsValue("integerValue", text, FALSE, <<>>)
TimestampValue(text) == FsValue("timestampValue", text, FALSE, <<>>)
BooleanValue(flag) == FsValue("booleanValue", <<>>, flag, <<>>)
ArrayValue(values) == FsValue("arrayValue", <<>>, FALSE, values)
MapValue == FsValue("mapValue", <<>>, FALSE, <<>>)
NullValue == FsValue("nullValue", <<>>, FALSE, <<>>)

\* fields?.[key]
Field(fields, key) == IF key \in DOMAIN fields THEN fields[key] ELSE NoValue

readString(fields, key) ==
    LET value == Field(fields, key)
    IN IF value.kind = "undefined" \/ value.kind # "stringValue" THEN <<>> ELSE value.text

readTimestamp(fields, key) ==
    LET value == Field(fields, key)
    IN IF value.kind = "undefined" THEN <<>>
       ELSE IF value.kind = "timestampValue" THEN value.text
       ELSE IF value.kind = "stringValue" THEN value.text
       ELSE <<>>

readBoolean(fields, key) ==
    LET value == Field(fields, key)
    IN IF value.kind = "undefined" THEN FALSE
       ELSE IF value.kind = "booleanValue" THEN value.flag
       ELSE IF value.kind = "stringValue" THEN value.text = <<"true">>
       ELSE FALSE

FiniteOrZero_Any(number) == number

\* Number.isFinite(parsed) ? parsed : 0
FiniteOrZero(number) == IF isFinite(number) THEN number ELSE Integer(0)

readInteger(fields, key) ==
    LET value == Field(fields, key)
    IN IF value.kind = "undefined" THEN Integer(0)
       ELSE IF value.kind = "integerValue" THEN FiniteOrZero(ToNumber(value.text))
       ELSE IF value.kind = "stringValue" THEN FiniteOrZero(ToNumber(value.text))
       ELSE Integer(0)

EntryText(entry) == IF entry.kind = "stringValue" THEN entry.text ELSE <<>>

RECURSIVE NonEmptyTexts(_)
\* .map(entry => "stringValue" in entry ? entry.stringValue : "").filter(entry => entry.length > 0)
NonEmptyTexts(values) ==
    IF values = <<>> THEN <<>>
    ELSE (IF EntryText(Head(values)) # <<>> THEN <<EntryText(Head(values))>> ELSE <<>>)
         \o NonEmptyTexts(Tail(values))

readStringArray(fields, key) ==
    LET value == Field(fields, key)
    IN IF value.kind = "undefined" \/ value.kind # "arrayValue" THEN <<>>
       ELSE NonEmptyTexts(value.values)

stringField(value) == StringValue(value)
timestampField(value) == TimestampValue(value)
boolField(value) == BooleanValue(value)

integerField_NoClamp(value) == IntegerValue(NumberToString(Floor(value)))

integerField(value) == IntegerValue(NumberToString(Max0(Floor(value))))

stringArrayField(values) == ArrayValue([i \in 1..Len(values) |-> StringValue(values[i])])

\* readInteger(doc.fields, "coinValue") || 10: 0 and NaN are falsy
OrTen(v) == IF v.t = "NaN" \/ (v.t = "finite" /\ v.h = 0) THEN Integer(10) ELSE v

-----------------------------------------------------------------------------
(* Usage counters: concurrent chore-creation requests on one usage key *)

MaxRequests == 2
MaxCount == 1

Creators == 1..MaxRequests

UsagePaths == { "family", "global" }

\* families/<familyId>/choreUsage/<key> counts in familyCount,
\* choreUsageGlobal/<key> in globalCount
UsageField(path) == IF path = "family" THEN "familyCount" ELSE "globalCount"

Title == <<"D", "i", "s", "h">>

MissingDocument == [exists |-> FALSE, fields |-> <<>>]
Document(fields) == [exists |-> TRUE, fields |-> fields]

\* the fields createOrReplaceDocument sends at lines 140-145
UsageFields(usageField, description, count) ==
    [f \in { "description", "normalized", usageField, "updatedAt" } |->
        CASE f = "description" -> stringField(description)
          [] f = "normalized" -> stringField(description)
          [] f = "updatedAt" -> timestampField(<<"T">>)
          [] OTHER -> count]

NextCount_FromStore(currentCount, stored) == integerField(PlusOne(stored))

\* integerField(currentCount + 1): the count read before, not the stored one
NextCount(currentCount, stored) == integerField(PlusOne(currentCount))

InitialUsageDocs(path) ==
    { MissingDocument }
      \cup { Document(UsageFields(UsageField(path), Title, integerField(Integer(c)))) : c \in 0..MaxCount }

Creator(step, currentCount) == [step |-> step, currentCount |-> currentCount]

\* what the usage writes did so far: the number of documents written per path,
\* and who wrote last with which count read
UsageLog(initial, writes, last) == [initial |-> initial, writes |-> writes, last |-> last]

NoWriter == [by |-> 0, read |-> Integer(0)]

InitUsage ==
    /\ secret = UNDEF /\ nowMs = 0 /\ ticks = 0 /\ token = <<>> /\ edits = 0
    /\ issued = NotIssued /\ parsed = NoUser
    /\ apiKey = TRUE
    /\ IdleServer
    /\ store \in [UsagePaths -> InitialUsageDocs("family") \cup InitialUsageDocs("global")]
    /\ \A p \in UsagePaths : store[p] \in InitialUsageDocs(p)
    /\ expired = {}
    /\ work = [r \in Creators |-> Creator("readFamily", Integer(0))]
    /\ history = UsageLog(store, [p \in UsagePaths |-> 0], [p \in UsagePaths |-> NoWriter])

PathOf(step) == IF step \in { "readFamily", "writeFamily" } THEN "family" ELSE "global"

\* part_006:126-135: getDocument and readInteger; a 404 leaves currentCount at 0
GetUsageDoc(r) ==
    /\ work[r].step \in { "readFamily", "readGlobal" }
    /\ LET path == PathOf(work[r].step)
           doc == store[path]
           currentCount == IF doc.exists THEN readInteger(doc.fields, UsageField(path))
                           ELSE Integer(0)
       IN work' = [work EXCEPT ![r] =
                     Creator(IF path = "family" THEN "writeFamily" ELSE "writeGlobal",
                             currentCount)]
    /\ UNCHANGED <<sessionVars, requestVars, store, expired, history>>

\* part_006:137-147: createOrReplaceDocument replaces the whole document
PutUsageDoc(r) ==
    /\ work[r].step \in { "writeFamily", "writeGlobal" }
    /\ LET path == PathOf(work[r].step)
           stored == IF store[path].exists
                     THEN readInteger(store[path].fields, UsageField(path))
                     ELSE Integer(0)
           count == NextCount(work[r].currentCount, stored)
       IN /\ store' = [store EXCEPT ![path] =
                         Document(UsageFields(UsageField(path), Title, count))]
          /\ history' = [history EXCEPT
                           !.writes[path] = @ + 1,
                           !.last[path] = [by |-> r, read |-> work[r].currentCount]]
          /\ work' = [work EXCEPT ![r] =
                        Creator(IF path = "family" THEN "readGlobal" ELSE "done",
                                work[r].currentCount)]
    /\ UNCHANGED <<sessionVars, requestVars, expired>>

\* a Firestore call answered with a failure other than the 404 of a missing
\* usage document: the error leaves incrementUsageCount and the work function
UsageCallFails(r) ==
    /\ work[r].step \notin { "done", "failed" }
    /\ work' = [work EXCEPT ![r] = Creator("failed", work[r].currentCount)]
    /\ UNCHANGED <<sessionVars, requestVars, store, expired, history>>

NextUsage ==
    \/ \E r \in Creators : GetUsageDoc(r)
    \/ \E r \in Creators : PutUsageDoc(r)
    \/ \E r \in Creators : UsageCallFails(r)

SpecUsage == InitUsage /\ [][NextUsage]_vars

StoredCount(doc, path) == IF doc.exists THEN readInteger(doc.fields, UsageField(path)) ELSE Integer(0)

\* C11: incrementUsageCount is a read followed by a write without compare-and-swap.
\* After any interleaving of the requests the stored count of a usage document is
\* the count its last writer read plus one, whatever the other requests wrote in
\* between, and it is never more than the initial count plus the number of
\* increments written to that document.
C11_LastWriterWins ==
    \A p \in UsagePaths :
        /\ history.writes[p] > 0 =>
              StoredCount(store[p], p) = PlusOne(history.last[p].read)
        /\ StoredCount(store[p], p).h
              <= StoredCount(history.initial[p], p).h + 2 * history.writes[p]

\* both requests have finished; the two increments of the family counter
\* interleaved and one was lost (c + 1), those of the global counter did not (c + 2)
C11_Witness ==
    /\ \A r \in Creators : work[r].step = "done"
    /\ history.writes["family"] = 2
    /\ history.writes["global"] = 2
    /\ StoredCount(store["family"], "family") = PlusOne(StoredCount(history.initial["family"], "family"))
    /\ StoredCount(store["global"], "global") = PlusOne(PlusOne(StoredCount(history.initial["global"], "global")))

-----------------------------------------------------------------------------
(* The field helpers applied to one field of a document *)

MaxNumber == 2
MaxEntries == 2

FieldKey == "coinValue"

\* texts of string fields: numerals, white space and words
FieldTexts ==
    { <<>>, <<" ">>, <<"a">>, <<"true">>, <<"NaN">>, <<"Infinity">>, <<"0">>, <<"7">>,
      <<"1", "0">>, <<"-", "3">>, <<"1", ".", "5">>, <<" ", "4", " ">> }

\* Firestore sends an integerValue as the decimal digits of a 64-bit integer
IntegerTexts == { <<"0">>, <<"7">>, <<"1", "0">> }

SeqsUpTo(S, n) == UNION { [1..k -> S] : k \in 0..n }

ArrayEntries == { StringValue(<<>>), StringValue(<<"a">>), IntegerValue(<<"7">>), BooleanValue(TRUE) }

FieldValues ==
    { NullValue, MapValue, TimestampValue(<<"T">>), BooleanValue(TRUE), BooleanValue(FALSE) }
      \cup { StringValue(t) : t \in FieldTexts }
      \cup { IntegerValue(t) : t \in IntegerTexts }
      \cup { ArrayValue(es) : es \in SeqsUpTo(ArrayEntries, MaxEntries) }

Numbers ==
    { Num(h) : h \in (0 - 2 * MaxNumber)..(2 * MaxNumber) }
      \cup { Integer(10), NaN, Infinity, NegInfinity }

OneField(value) == [f \in { FieldKey } |-> value]

\* the helper applied last, its argument and result, and the helper that wrote
\* the field with its argument
Applied(op, arg, result, written) == [op |-> op, arg |-> arg, result |-> result, written |-> written]
NotWritten == [op |-> "none", arg |-> <<>>]

InitFields ==
    /\ secret = UNDEF /\ nowMs = 0 /\ ticks = 0 /\ token = <<>> /\ edits = 0
    /\ issued = NotIssued /\ parsed = NoUser
    /\ apiKey = TRUE
    /\ IdleServer
    /\ store \in { <<>> } \cup { OneField(v) : v \in FieldValues }
    /\ expired = {}
    /\ work = Applied("none", <<>>, <<>>, NotWritten)
    /\ history = <<>>

Reads(op, result) ==
    /\ work' = Applied(op, FieldKey, result, work.written)
    /\ UNCHANGED <<sessionVars, requestVars, store, expired, history>>

Writes(op, arg, value) ==
    /\ store' = OneField(value)
    /\ work' = Applied(op, arg, value, [op |-> op, arg |-> arg])
    /\ UNCHANGED <<sessionVars, requestVars, expired, history>>

ReadStringField == Reads("readString", readString(store, FieldKey))
ReadTimestampField == Reads("readTimestamp", readTimestamp(store, FieldKey))
ReadBooleanField == Reads("readBoolean", readBoolean(store, FieldKey))
ReadIntegerField == Reads("readInteger", readInteger(store, FieldKey))
ReadStringArrayField == Reads("readStringArray", readStringArray(store, FieldKey))

\* part_006:162 and part_003:336
ReadCoinValue == Reads("coinValue", OrTen(readInteger(store, FieldKey)))

WriteStringField == \E s \in FieldTexts : Writes("stringField", s, stringField(s))
WriteBoolField == \E b \in BOOLEAN : Writes("boolField", b, boolField(b))
WriteIntegerField == \E n \in Numbers : Writes("integerField", n, integerField(n))
WriteStringArrayField ==
    \E ss \in SeqsUpTo({ <<>>, <<"a">>, <<"b">> }, MaxEntries) :
        Writes("stringArrayField", ss, stringArrayField(ss))

\* part_006:322: coinValue: integerField(10)
WriteCoinValue == Writes("integerField", Integer(10), integerField(Integer(10)))

\* part_006:129 and 143: integerField(readInteger(doc.fields, usageField) + 1)
WriteNextCount ==
    LET currentCount == readInteger(store, FieldKey)
    IN /\ currentCount.h < 2 * MaxNumber
       /\ Writes("integerField", PlusOne(currentCount), integerField(PlusOne(currentCount)))

NextFields ==
    \/ ReadStringField
    \/ ReadTimestampField
    \/ ReadBooleanField
    \/ ReadIntegerField
    \/ ReadStringArrayField
    \/ ReadCoinValue
    \/ WriteStringField
    \/ WriteBoolField
    \/ WriteIntegerField
    \/ WriteStringArrayField
    \/ WriteCoinValue
    \/ WriteNextCount

SpecFields == InitFields /\ [][NextFields]_vars

StoredValue == Field(store, FieldKey)

\* a text with a character no numeral has
HasLetter(text) == \E i \in 1..Len(text) : text[i] \in { "a", "true", "NaN" }

StringEntries(values) == { i \in 1..Len(values) : values[i].kind = "stringValue" /\ values[i].text # <<>> }

\* C15: the read helpers are total and default on a missing or wrongly typed
\* field: readString gives "", readInteger 0 (also for a non-numeric string, and
\* never NaN), readBoolean false unless the field is booleanValue true or the
\* string "true", readStringArray [] and otherwise the non-empty string entries;
\* and reading back what stringField, boolField or integerField(n), n a
\* non-negative integer, wrote gives the value written.
C15_ReadersDefault ==
    /\ work.op = "readString" =>
          /\ StoredValue.kind # "stringValue" => work.result = <<>>
          /\ work.written.op = "stringField" => work.result = work.written.arg
    /\ work.op = "readInteger" =>
          /\ isFinite(work.result)
          /\ StoredValue.kind \notin { "integerValue", "stringValue" } => work.result = Integer(0)
          /\ (StoredValue.kind = "stringValue" /\ HasLetter(StoredValue.text)) =>
                work.result = Integer(0)
          /\ (work.written.op = "integerField" /\ IsInteger(work.written.arg)
                /\ work.written.arg.h >= 0) => work.result = work.written.arg
    /\ work.op = "readBoolean" =>
          /\ work.result \in BOOLEAN
          /\ work.result <=> (StoredValue = BooleanValue(TRUE) \/ StoredValue = StringValue(<<"true">>))
          /\ work.written.op = "boolField" => work.result = work.written.arg
    /\ work.op = "readStringArray" =>
          /\ StoredValue.kind # "arrayValue" => work.result = <<>>
          /\ \A i \in 1..Len(work.result) : work.result[i] # <<>>
          /\ StoredValue.kind = "arrayValue" =>
                /\ Len(work.result) = Cardinality(StringEntries(StoredValue.values))
                /\ \A i \in 1..Len(work.result) :
                      \E j \in StringEntries(StoredValue.values) :
                          StoredValue.values[j].text = work.result[i]

\* readInteger has read a non-numeric string, and an integer written by integerField
C15_Witness ==
    /\ work.op = "readInteger"
    /\ \/ StoredValue = StringValue(<<"a">>)
       \/ work.written.op = "integerField" /\ work.written.arg = Integer(2)

\* what GET /api/chores and the summary report is 1, 2, 3, ...
IsPositiveInteger(v) == IsInteger(v) /\ v.h > 0

\* the stored value is missing, of a type readInteger does not read, not a
\* numeral, or zero
Defaulted(value) ==
    \/ value.kind \notin { "integerValue", "stringValue" }
    \/ value.kind = "stringValue" /\ HasLetter(value.text)
    \/ value.kind = "integerValue" /\ value.text = <<"0">>

\* C14: integerField encodes max(0, floor(value)), so no integer written through
\* it is negative, neither a coinValue nor a usage count; and the coinValue
\* reported for a field that integerField wrote, or that is missing, unparsable
\* or zero, is a positive integer, 10 in the latter cases.
C14_NoNegativeInteger ==
    /\ work.written.op = "integerField" =>
          LET n == ToNumber(StoredValue.text)
              arg == work.written.arg
          IN /\ StoredValue.kind = "integerValue"
             /\ ~IsNegative(n)
             /\ isFinite(arg) =>
                   /\ IsInteger(n)
                   /\ arg.h >= 0 => (n.h <= arg.h /\ arg.h < n.h + 2)
                   /\ arg.h < 0 => n.h = 0
    /\ (work.op = "coinValue" /\ (work.written.op = "integerField" \/ Defaulted(StoredValue))) =>
          IsPositiveInteger(work.result)
    /\ (work.op = "coinValue" /\ Defaulted(StoredValue)) => work.result = Integer(10)

\* integerField was given a negative number and the coinValue was read back
C14_Witness ==
    /\ work.op = "coinValue"
    /\ work.written.op = "integerField"
    /\ IsNegative(work.written.arg)
    /\ work.result = Integer(10)

-----------------------------------------------------------------------------
(* Chores over the document store: part_006, chores/[choreId]/route.ts,    *)
(* chores/suggestions/route.ts and the chores of the summary               *)

\* number of chore documents the store can hold
MaxChores == 4

\* number of writing requests in a row
MaxWrites == 1

\* randomUUID(): the names in the order in which they are drawn
ChoreNames == <<"c1", "c2", "c3", "c4", "c5", "c6">>
ChoreIds == { ChoreNames[i] : i \in 1..MaxChores }

Today == <<"2026-11-02">>
Tomorrow == <<"2026-11-03">>

\* String.prototype.toLowerCase on the titles of the model
ToLower(str) == [i \in 1..Len(str) |-> IF str[i] = "D" THEN "d" ELSE str[i]]

\* part_006:315-326: the fields of a new chore (those the readers use)
ChoreFields(title, dueDate, uid) ==
    [f \in { "title", "status", "dueDate", "coinValue", "deleted", "createdBy" } |->
        CASE f = "title" -> stringField(title)
          [] f = "status" -> stringField(<<"Open">>)
          [] f = "dueDate" -> stringField(dueDate)
          [] f = "coinValue" -> integerField(Integer(10))
          [] f = "deleted" -> boolField(FALSE)
          [] OTHER -> stringField(<<uid>>)]

\* chores/[choreId]/route.ts:64-68
DeletedFields ==
    [f \in { "deleted", "deletedAt", "status" } |->
        CASE f = "deleted" -> boolField(TRUE)
          [] f = "deletedAt" -> timestampField(<<"T">>)
          [] OTHER -> stringField(<<"Deleted">>)]

\* PATCH with an update mask naming the fields sent: the other fields stay, and
\* a document that is not there is created
patchDocument(doc, fields) ==
    LET old == IF doc.exists THEN doc.fields ELSE <<>>
    IN Document([f \in DOMAIN old \cup DOMAIN fields |->
                    IF f \in DOMAIN fields THEN fields[f] ELSE old[f]])

ChoresStore(users, members, lookups, chores, usage) ==
    [users |-> users, members |-> members, lookups |-> lookups, chores |-> chores,
     usage |-> usage]

\* the locals of a work function, with those of the chore handlers
ChoresWork(before) ==
    [step |-> "none", attempt |-> 0, idToken |-> "", familyId |-> "", member |-> NoDoc,
     writes |-> <<>>, before |-> before, index |-> 1, currentCount |-> Integer(0)]

\* a failed Firestore call leaves in the store what the calls before it wrote
StoreAfterFailure_RolledBack(current, before) == before

StoreAfterFailure(current, before) == current

FreeChoreIds(s) == { i \in 1..MaxChores : ~s.chores[ChoreNames[i]].exists }

\* the name randomUUID() gives the next chore document
NextChoreId(s) == ChoreNames[CHOOSE i \in FreeChoreIds(s) : \A j \in FreeChoreIds(s) : i <= j]

ExistingChores ==
    { [c \in ChoreIds |-> MissingDocument],
      [c \in ChoreIds |-> IF c = "c1" THEN Document(ChoreFields(<<"D">>, Today, "u1"))
                          ELSE MissingDocument],
      [c \in ChoreIds |-> CASE c = "c1" -> Document(ChoreFields(<<"D">>, Today, "u1"))
                            [] c = "c2" -> Document(ChoreFields(<<"d">>, Tomorrow, "u1"))
                            [] OTHER -> MissingDocument] }

InitChoreStores ==
    { ChoresStore([u \in UserIds |-> UserDoc(<<FamilyId>>)],
                  [m \in MemberIds |->
                      CASE m = "u1" -> MemberDoc("u1", "a@x", "admin", "active", FALSE)
                        [] m = "u2" -> MemberDoc("u2", "b@x", "player", "active", FALSE)
                        [] m = "m1" -> MemberDoc("", " E@x ", "player", "invited", FALSE)
                        [] OTHER -> MemberDoc("", "e@x", "player", "active", FALSE)],
                  [e \in LookupIds |-> NoLookup],
                  chores,
                  [p \in UsagePaths |-> IF chores["c1"].exists
                                        THEN Document(UsageFields(UsageField(p), <<"D">>,
                                                                  integerField(Integer(1))))
                                        ELSE MissingDocument]) :
        chores \in ExistingChores }

OneTitle == Body("object", JsString(<<"D">>), JsUndefined, JsUndefined, JsUndefined)
TwoTitles == Body("object", JsUndefined, JsArray(<<JsString(<<"D">>), JsString(<<" ", "d">>)>>), JsUndefined, JsUndefined)

\* the cookie of the admin u1, who has an ID token and a refresh token
AdminCookies == { createSessionToken(u, ServerSecret, 0) : u \in { x \in Users : x.uid = "u1" } }

\* requests that write: create chores, delete a chore, re-invite a member
WriteRequests ==
    { Request("choresCreate", c, "", TRUE, b) : c \in AdminCookies, b \in { OneTitle, TwoTitles } }
      \cup { Request("choresDelete", c, id, TRUE, NoBody) : c \in AdminCookies, id \in { "c1", "c2" } }
      \cup { Request("reinvite", c, id, TRUE, NoBody) : c \in AdminCookies, id \in { "m1", "e@x" } }

\* requests that read: the chore list, the summary, the suggestions
ReadRequests ==
    { Request(h, c, "", TRUE, NoBody) :
        h \in { "choresList", "summary", "suggestions" }, c \in AdminCookies }

InitChores ==
    /\ secret = ServerSecret
    /\ nowMs = 0
    /\ ticks = 0
    /\ token = Undefined
    /\ edits = 0
    /\ issued = NotIssued
    /\ parsed = NotParsed
    /\ apiKey = TRUE
    /\ IdleServer
    /\ store \in InitChoreStores
    /\ expired = {}
    /\ work = ChoresWork(store)
    /\ history = <<>>

WriteHandlers == { "choresCreate", "choresDelete", "reinvite" }

\* the first lines of the handlers that write (part_006:255-296,
\* chores/[choreId]/route.ts:37-52, reinvite/route.ts:48-63)
WriteRequest(req) ==
    /\ pc = "idle"
    /\ Len(history) < MaxCalls
    /\ Len(SelectSeq(history, LAMBDA e : e.request.handler \in WriteHandlers)) < MaxWrites
    /\ request' = Admit(req).request
    /\ response' = Admit(req).response
    /\ pc' = Admit(req).pc
    /\ run' = NoRun
    /\ work' = ChoresWork(store)
    /\ UNCHANGED <<apiKey, store, expired, history>>
    /\ UNCHANGED sessionVars

Titles == TitlesOf(request.body)

\* part_006:311-330: one chore document per title, under a fresh name
PutChore ==
    /\ pc = "work" /\ work.step = "putChore"
    /\ IF work.idToken \in expired
       THEN /\ EndWork(Unauthorized, work.writes)
            /\ store' = StoreAfterFailure(store, work.before)
       ELSE /\ FreeChoreIds(store) # {}
            /\ store' = [store EXCEPT !.chores[NextChoreId(store)] =
                            Document(ChoreFields(Titles[work.index], Today, request.session.uid))]
            /\ Continue([work EXCEPT
                           !.step = IF work.index < Len(Titles) THEN "putChore" ELSE "readFamily",
                           !.index = IF work.index < Len(Titles) THEN work.index + 1 ELSE 1,
                           !.writes = Append(work.writes,
                                             Write("put", "chores", NextChoreId(store)))])
    /\ UNCHANGED <<apiKey, request, response, expired, history>>
    /\ UNCHANGED sessionVars

\* part_006:126-135: the count of the usage document, 0 when it is not there
ReadUsageCount ==
    /\ pc = "work" /\ work.step \in { "readFamily", "readGlobal" }
    /\ LET path == PathOf(work.step)
       IN IF work.idToken \in expired
          THEN /\ EndWork(Unauthorized, work.writes)
               /\ store' = StoreAfterFailure(store, work.before)
          ELSE /\ Continue([work EXCEPT
                              !.step = IF path = "family" THEN "writeFamily" ELSE "writeGlobal",
                              !.currentCount = StoredCount(store.usage[path], path)])
               /\ UNCHANGED store
    /\ UNCHANGED <<apiKey, request, response, expired, history>>
    /\ UNCHANGED sessionVars

\* part_006:137-147 and 332-350: the usage document is replaced; after the
\* last title the work function returns { kind: "ok", created: titles.length }
WriteUsageCount ==
    /\ pc = "work" /\ work.step \in { "writeFamily", "writeGlobal" }
    /\ LET path == PathOf(work.step)
           count == NextCount(work.currentCount, StoredCount(store.usage[path], path))
           writes == Append(work.writes, Write("put", "usage", path))
       IN IF work.idToken \in expired
          THEN /\ EndWork(Unauthorized, work.writes)
               /\ store' = StoreAfterFailure(store, work.before)
          ELSE /\ store' = [store EXCEPT !.usage[path] =
                               Document(UsageFields(UsageField(path), Titles[work.index], count))]
               /\ IF path = "family"
                  THEN Continue([work EXCEPT !.step = "readGlobal", !.writes = writes])
                  ELSE IF work.index < Len(Titles)
                  THEN Continue([work EXCEPT !.step = "readFamily", !.writes = writes,
                                             !.index = work.index + 1])
                  ELSE EndWork(Returns("ok"), writes)
    /\ UNCHANGED <<apiKey, request, response, expired, history>>
    /\ UNCHANGED sessionVars

\* chores/[choreId]/route.ts:61-74: the soft delete
PatchChoreDeleted ==
    /\ pc = "work" /\ work.step = "patchChore"
    /\ IF work.idToken \in expired
       THEN /\ EndWork(Unauthorized, work.writes)
            /\ store' = StoreAfterFailure(store, work.before)
       ELSE /\ store' = [store EXCEPT !.chores[request.id] =
                            patchDocument(store.chores[request.id], DeletedFields)]
            /\ EndWork(Returns("ok"), Append(work.writes, Write("patch", "chores", request.id)))
    /\ UNCHANGED <<apiKey, request, response, expired, history>>
    /\ UNCHANGED sessionVars


\* normalizeChoreDoc (part_006:150-166) and the row of the summary (part_003:329-337)
normalizeChoreDoc(id, doc) ==
    [id |-> id,
     title |-> IF readString(doc.fields, "title") = <<>> THEN <<"Untitled chore">>
               ELSE readString(doc.fields, "title"),
     dueDate |-> readString(doc.fields, "dueDate"),
     coinValue |-> OrTen(readInteger(doc.fields, "coinValue")),
     deleted |-> readBoolean(doc.fields, "deleted")]

\* listDocuments: the documents of the collection that are there
ChoreRows(s) == { normalizeChoreDoc(c, s.chores[c]) : c \in { x \in ChoreIds : s.chores[x].exists } }

IsListed_AlsoDeleted(row) == TRUE

\* .filter((doc) => !doc.deleted)
IsListed(row) == ~row.deleted

\* part_006:212-233; the order of the rows is left out
ListedChores(s) == { row \in ChoreRows(s) : IsListed(row) }

\* listDocuments returns the member documents in the order of their names
MemberOrder == <<"e@x", "m1", "u1", "u2">>

RawMembers(s, order) == SelectSeq(order, LAMBDA m : s.members[m].exists /\ ~s.members[m].deleted)

\* part_003:226-231: the member with the viewer's uid, else the first one
\* without a uid that has the viewer's e-mail address; "" when there is none
ViewerMember(s, order, session) ==
    LET raw == RawMembers(s, order)
        byUid == SelectSeq(raw, LAMBDA m : s.members[m].uid = session.uid)
        byEmail == SelectSeq(raw, LAMBDA m : s.members[m].uid = ""
                                   /\ NormalizeEmail(s.members[m].email) = NormalizeEmail(session.email))
    IN IF byUid # <<>> THEN Head(byUid) ELSE IF byEmail # <<>> THEN Head(byEmail) ELSE ""

\* toMemberStatus(readString(doc.fields, "status"))
toMemberStatus(value) == IF value = "active" THEN "active" ELSE "invited"

IsInvited(s, order, session) ==
    /\ ViewerMember(s, order, session) # ""
    /\ toMemberStatus(s.members[ViewerMember(s, order, session)].status) = "invited"

\* part_003:327-338: an invited viewer gets no chores, the others today's
ChoresToday(s, session, today) ==
    IF IsInvited(s, MemberOrder, session) THEN {}
    ELSE { row \in ChoreRows(s) : row.dueDate = today /\ IsListed(row) }

\* suggestions/route.ts:210-223: the chores counted as history
CountedChores(s) ==
    { c \in ChoreIds : /\ s.chores[c].exists
                       /\ readString(s.chores[c].fields, "title") # <<>>
                       /\ IsListed(normalizeChoreDoc(c, s.chores[c])) }

HistoryKey(s, c) == ToLower(readString(s.chores[c].fields, "title"))

\* suggestions/route.ts:235-238: the title of the first chore document with this key
TitleFor(s, key) ==
    LET first == CHOOSE i \in 1..MaxChores :
                    /\ s.chores[ChoreNames[i]].exists /\ HistoryKey(s, ChoreNames[i]) = key
                    /\ \A j \in 1..(i - 1) :
                          ~(s.chores[ChoreNames[j]].exists /\ HistoryKey(s, ChoreNames[j]) = key)
    IN readString(s.chores[ChoreNames[first]].fields, "title")

Suggestion(description, familyCount, globalCount) ==
    [description |-> description, familyCount |-> familyCount, globalCount |-> globalCount]

MaxOf(a, b) == IF a.h >= b.h THEN a ELSE b

UsageDescription(s, path) ==
    IF s.usage[path].exists THEN readString(s.usage[path].fields, "description") ELSE <<>>

\* suggestions/route.ts:183-245 for one key: the usage documents first, then the history
SuggestionFor(s, key) ==
    LET fam == UsageDescription(s, "family") # <<>> /\ ToLower(UsageDescription(s, "family")) = key
        glob == UsageDescription(s, "global") # <<>> /\ ToLower(UsageDescription(s, "global")) = key
        count == Integer(Cardinality({ c \in CountedChores(s) : HistoryKey(s, c) = key }))
        fromUsage ==
            IF fam THEN Suggestion(UsageDescription(s, "family"),
                                   StoredCount(s.usage["family"], "family"),
                                   IF glob THEN MaxOf(Integer(0), StoredCount(s.usage["global"], "global"))
                                   ELSE Integer(0))
            ELSE Suggestion(UsageDescription(s, "global"), Integer(0),
                            StoredCount(s.usage["global"], "global"))
    IN IF fam \/ glob
       THEN IF count.h > 0
            THEN Suggestion(fromUsage.description, MaxOf(fromUsage.familyCount, count),
                            fromUsage.globalCount)
            ELSE fromUsage
       ELSE Suggestion(TitleFor(s, key), count, Integer(0))

SuggestionKeys(s) ==
    { ToLower(UsageDescription(s, p)) : p \in { q \in UsagePaths : UsageDescription(s, q) # <<>> } }
      \cup { HistoryKey(s, c) : c \in CountedChores(s) }

Suggestions(s) == { SuggestionFor(s, key) : key \in SuggestionKeys(s) }

\* what a read answered: the chores it shows and the rows or suggestions
Shown(listed, rows) == [listed |-> listed, rows |-> rows]

AnsweredRead(req, before, resp, data) ==
    [request |-> req, before |-> before, response |-> resp, writes |-> <<>>,
     failed |-> FALSE, refreshed |-> FALSE, data |-> data]

\* a read by a member whose ID token Firestore accepts: the handler answers
\* from the documents without a refresh
AnswersRead(req, data) ==
    /\ pc = "idle"
    /\ Len(history) < MaxCalls
    /\ Admit(req).pc = "attempt1"
    /\ ~Falsy(Admit(req).request.session.firebaseIdToken)
    /\ Admit(req).request.session.firebaseIdToken \notin expired
    /\ history' = Append(history,
                         AnsweredRead(Admit(req).request, store, JsonSuccess(200, FALSE, NoUser), data))
    /\ UNCHANGED <<apiKey, request, response, run, pc, store, expired, work>>
    /\ UNCHANGED sessionVars

\* GET /api/chores: part_006:181-253
GetChores(req) ==
    /\ req.handler = "choresList"
    /\ AnswersRead(req, Shown({ row.id : row \in ListedChores(store) }, ListedChores(store)))

\* GET /api/family/summary of a viewer whose users document names the family
GetSummary(req, today) ==
    /\ req.handler = "summary"
    /\ LET rows == ChoresToday(store, Admit(req).request.session, today)
       IN AnswersRead(req, Shown({ row.id : row \in rows }, rows))

\* GET /api/chores/suggestions without a query
GetSuggestions(req) ==
    /\ req.handler = "suggestions"
    /\ AnswersRead(req, Shown(CountedChores(store), Suggestions(store)))

NextChores ==
    \/ \E req \in WriteRequests : WriteRequest(req)
    \/ BeginFirstAttempt
    \/ ExpireToken
    \/ GetUserDoc
    \/ PutChore
    \/ ReadUsageCount
    \/ WriteUsageCount
    \/ PatchChoreDeleted
    \/ GetRequesterDoc
    \/ GetMemberDoc
    \/ PutEmailKeyedMember
    \/ PatchLegacyDeleted
    \/ PatchInvited
    \/ PutInviteLookup
    \/ RefreshExchange
    \/ SecondAttemptWithoutToken
    \/ BeginSecondAttempt
    \/ Respond
    \/ Catch
    \/ NextCall
    \/ \E req \in ReadRequests : GetChores(req)
    \/ \E req \in ReadRequests, today \in { Today, Tomorrow } : GetSummary(req, today)
    \/ \E req \in ReadRequests : GetSuggestions(req)

SpecChores == InitChores /\ [][NextChores]_vars


-----------------------------------------------------------------------------
(* Properties of the chore handlers *)

\* the store as the call answered i-th left it
StoreAfter(i) == IF i < Len(history) THEN history[i + 1].before ELSE store

DeletedOk(i) ==
    /\ history[i].request.handler = "choresDelete"
    /\ history[i].response.status = 200

IsRead(i) == history[i].request.handler \in { "choresList", "summary", "suggestions" }

Written(s, w) ==
    CASE w.collection = "chores" -> s.chores[w.id]
      [] w.collection = "usage" -> s.usage[w.id]
      [] w.collection = "members" -> s.members[w.id]
      [] OTHER -> s.lookups[w.id]

\* what the write put into the document is what the store holds now
Remains(w) ==
    /\ Written(store, w).exists
    /\ w.collection = "chores" /\ w.op = "put" => ~Written(work.before, w).exists
    /\ w.collection = "usage" =>
          StoredCount(Written(store, w), w.id).h > StoredCount(Written(work.before, w), w.id).h
    /\ w.collection = "members" /\ w.op = "put" =>
          Written(store, w).status = "invited" /\ ~Written(store, w).deleted
    /\ w.collection = "members" /\ w.op = "patch" =>
          Written(store, w).deleted \/ Written(store, w).status = "invited"

C16_ReinviteFailed ==
    /\ pc = "done"
    /\ run.thrown # NoError
    /\ request.handler = "reinvite"
    /\ \E k \in 1..Len(work.writes) : work.writes[k] = Write("patch", "members", "m1")

AddedChores == { c \in ChoreIds : store.chores[c].exists /\ ~work.before.chores[c].exists }

\* C18: when POST /api/chores answers 201 with created = n, the request added
\* exactly n chore documents, also when a Firestore call failed with 401 after
\* chore documents were written and the work function ran again.
C18_CreatedIsAdded ==
    (pc = "done" /\ request.handler = "choresCreate" /\ response.status = 201) =>
        Cardinality(AddedChores) = Len(Titles)

-----------------------------------------------------------------------------
(* Families, invites and the summary: part_002, part_003, reinvite/route.ts *)

\* number of requests in a row from the stores of InitFamily
MaxFamilyCalls == 2

\* number of requests in a row from a family with its admin only
MaxInviteCalls == 5

\* families in the order a collection group query returns their members; the
\* last one is the name randomUUID() gives to a new family
FamilyOrder == <<"f1", "f2", "f3">>
FamilyIds == { FamilyOrder[i] : i \in 1..Len(FamilyOrder) }

\* member documents by name, in the order listDocuments returns them; r1 and
\* r2 are the names randomUUID() gives to new invites
FamilyMemberOrder == <<"e@x", "r1", "r2", "u1", "u2">>
FamilyMemberIds == { FamilyMemberOrder[i] : i \in 1..Len(FamilyMemberOrder) }

\* families/<familyId>/members/<id>
FamilyMember(uid, email, role, status, deleted, name, createdBy) ==
    [exists |-> TRUE, uid |-> uid, email |-> email, role |-> role, status |-> status,
     deleted |-> deleted, name |-> name, createdBy |-> createdBy]

NoMember == [exists |-> FALSE, uid |-> "", email |-> "", role |-> "", status |-> "",
             deleted |-> FALSE, name |-> "", createdBy |-> ""]

\* users by uid, members by family and name, inviteLookup by e-mail address, and
\* the families that have a families/<familyId> document
FamilyStore(users, members, lookups, families) ==
    [users |-> users, members |-> members, lookups |-> lookups, families |-> families]

Admin == SessionUser("u1", "admin", "a@x", "idA", "rtA")

\* the invited user signs in with the invited address, spelled their way
Invitee == SessionUser("u2", "player", " E@x ", "idB", "rtB")

\* readStringArray(userDoc?.fields, "familyIds")[0]
FirstFamilyId(s, uid) ==
    IF s.users[uid].exists /\ s.users[uid].familyIds # <<>> THEN Head(s.users[uid].familyIds)
    ELSE ""

\* the first family, in the order of the query result, with a document that passes
FirstFamilyWith(s, Passes(_)) ==
    LET found == SelectSeq(FamilyOrder,
                           LAMBDA f : \E m \in FamilyMemberIds : Passes(s.members[f][m]))
    IN IF found = <<>> THEN "" ELSE Head(found)

\* session.ts:222-280
findFirstFamilyIdByMemberUid(s, uid) ==
    IF uid = "" THEN ""
    ELSE FirstFamilyWith(s, LAMBDA doc : doc.exists /\ doc.uid = uid /\ ~doc.deleted)

findFirstFamilyIdByMemberEmail_AlsoDeleted(s, email) ==
    IF NormalizeEmail(email) = "" THEN ""
    ELSE FirstFamilyWith(s, LAMBDA doc : doc.exists /\ doc.email = NormalizeEmail(email))

\* session.ts:282-341: the query compares the stored field with the normalized address
findFirstFamilyIdByMemberEmail(s, email) ==
    IF NormalizeEmail(email) = "" THEN ""
    ELSE FirstFamilyWith(s, LAMBDA doc : doc.exists /\ doc.email = NormalizeEmail(email)
                                           /\ ~doc.deleted)

\* part_003:161-170 and part_002:86-93: inviteLookup/<email> names a family
InviteLookupFamilyId(s, email) ==
    LET doc == s.lookups[NormalizeEmail(email)]
    IN IF NormalizeEmail(email) \in DOMAIN s.lookups /\ doc.exists
          /\ doc.status \in { "invited", "claimed" } /\ doc.familyId # ""
       THEN doc.familyId ELSE ""

FirstNonEmpty(a, b, c) == IF a # "" THEN a ELSE IF b # "" THEN b ELSE c

RecoveredFamilyId_LookupFirst(s, session) ==
    FirstNonEmpty(IF Falsy(session.email) THEN "" ELSE InviteLookupFamilyId(s, session.email),
                  findFirstFamilyIdByMemberUid(s, session.uid),
                  findFirstFamilyIdByMemberEmail(s, session.email))

\* part_003:157-182: uidRecoveredFamilyId || inviteLookupFamilyId || emailRecoveredFamilyId
RecoveredFamilyId(s, session) ==
    FirstNonEmpty(findFirstFamilyIdByMemberUid(s, session.uid),
                  IF Falsy(session.email) THEN "" ELSE InviteLookupFamilyId(s, session.email),
                  findFirstFamilyIdByMemberEmail(s, session.email))

\* relinkUserPrimaryFamily (part_003:102-114): users/<uid>.familyIds = [familyId]
relinkUserPrimaryFamily(s, uid, familyId) ==
    [s EXCEPT !.users[uid] = UserDoc(<<familyId>>)]

\* part_003:212-225: the member documents that are not deleted, in list order
FamilyRawMembers(s, familyId) ==
    SelectSeq(FamilyMemberOrder,
              LAMBDA m : s.members[familyId][m].exists /\ ~s.members[familyId][m].deleted)

\* part_003:227-231
FamilyViewerMember(s, familyId, session) ==
    LET raw == FamilyRawMembers(s, familyId)
        byUid == SelectSeq(raw, LAMBDA m : s.members[familyId][m].uid = session.uid)
        byEmail == SelectSeq(raw, LAMBDA m :
                       /\ s.members[familyId][m].uid = ""
                       /\ NormalizeEmail(s.members[familyId][m].email) = NormalizeEmail(session.email))
    IN IF byUid # <<>> THEN Head(byUid) ELSE IF byEmail # <<>> THEN Head(byEmail) ELSE ""

IsKept_Always(s, familyId, m) == TRUE

\* part_003:277-291: an invite is left out when a member with a uid has its address
IsKept(s, familyId, m) ==
    LET member == s.members[familyId][m]
        raw == FamilyRawMembers(s, familyId)
    IN \/ member.uid # ""
       \/ NormalizeEmail(member.email) = ""
       \/ ~\E i \in 1..Len(raw) :
              /\ s.members[familyId][raw[i]].uid # ""
              /\ NormalizeEmail(s.members[familyId][raw[i]].email) = NormalizeEmail(member.email)

MemberRow(id, doc) ==
    [id |-> id, uid |-> doc.uid, email |-> doc.email, role |-> RoleOf(doc),
     status |-> toMemberStatus(doc.status),
     name |-> IF doc.name = "" THEN "Unnamed member" ELSE doc.name]

\* part_003:276-311; the order of the rows is left out
MappedMembers(s, familyId) ==
    LET raw == FamilyRawMembers(s, familyId)
    IN { MemberRow(raw[i], s.members[familyId][raw[i]]) :
           i \in { k \in 1..Len(raw) : IsKept(s, familyId, raw[k]) } }

\* every member of the family
Inviter_AllMembers(s, familyId, viewer) ==
    LET raw == FamilyRawMembers(s, familyId)
    IN { MemberRow(raw[i], s.members[familyId][raw[i]]) : i \in 1..Len(raw) }

\* part_003:233-237: the member who created the viewer's invite
Inviter(s, familyId, viewer) ==
    LET raw == FamilyRawMembers(s, familyId)
        createdBy == s.members[familyId][viewer].createdBy
        found == SelectSeq(raw, LAMBDA m : s.members[familyId][m].uid = createdBy \/ m = createdBy)
    IN IF found = <<>> THEN {} ELSE { MemberRow(Head(found), s.members[familyId][Head(found)]) }

\* the body of the summary; choresToday is empty unless the summary fills it
SummaryData(noFamily, familyId, members, pendingInvite) ==
    [noFamily |-> noFamily, familyId |-> familyId, members |-> members,
     pendingInvite |-> pendingInvite, choresToday |-> {}]

\* the chore documents of the families: in f1 an open one for today, a deleted
\* one, one for tomorrow, a submitted one, one with a status outside the
\* vocabulary and one whose deleted field is the string "true"; in f2 one for today
FamilyChoreDocs(familyId) ==
    [c \in { "c1", "c2", "c3", "c4", "c5", "c6" } |->
        CASE familyId = "f1" /\ c = "c1" -> Document(ChoreFields(<<"D">>, Today, "u1"))
          [] familyId = "f1" /\ c = "c2" ->
                 patchDocument(Document(ChoreFields(<<"D">>, Today, "u1")), DeletedFields)
          [] familyId = "f1" /\ c = "c3" -> Document(ChoreFields(<<"D">>, Tomorrow, "u1"))
          [] familyId = "f1" /\ c = "c4" ->
                 patchDocument(Document(ChoreFields(<<"D">>, Today, "u1")),
                               [f \in { "status" } |-> stringField(<<"Submitted">>)])
          [] familyId = "f1" /\ c = "c5" ->
                 patchDocument(Document(ChoreFields(<<"D">>, Today, "u1")),
                               [f \in { "status" } |-> stringField(<<"Done">>)])
          [] familyId = "f1" /\ c = "c6" ->
                 patchDocument(Document(ChoreFields(<<"D">>, Today, "u1")),
                               [f \in { "deleted" } |-> stringField(<<"true">>)])
          [] familyId = "f2" /\ c = "c1" -> Document(ChoreFields(<<"d">>, Today, "u9"))
          [] OTHER -> MissingDocument]

toChoreStatus_AsStored(status) == status

\* part_003:344-350: a status outside the vocabulary is reported as Unknown
toChoreStatus(status) ==
    IF status \in { <<"Open">>, <<"Submitted">>, <<"Approved">>, <<"Rejected">> } THEN status
    ELSE <<"Unknown">>

\* part_003:328-352: the chores of today that are not deleted
SummaryChores(familyId, today) ==
    LET docs == FamilyChoreDocs(familyId)
        listed == { c \in DOMAIN docs : docs[c].exists }
        due == { c \in listed : /\ readString(docs[c].fields, "dueDate") = today
                                /\ ~readBoolean(docs[c].fields, "deleted") }
    IN { [id |-> c,
          title |-> IF readString(docs[c].fields, "title") = <<>> THEN <<"Untitled chore">>
                    ELSE readString(docs[c].fields, "title"),
          dueDate |-> readString(docs[c].fields, "dueDate"),
          coinValue |-> OrTen(readInteger(docs[c].fields, "coinValue")),
          status |-> toChoreStatus(readString(docs[c].fields, "status"))] : c \in due }

FamilyResult(resp, data, after) == [response |-> resp, data |-> data, store |-> after]

NoPendingInvite == [exists |-> FALSE, familyId |-> "", invitedEmail |-> "", inviter |-> {}]

\* part_003:244-259
PendingInvite(familyId, invitedEmail, inviter) ==
    [exists |-> TRUE, familyId |-> familyId, invitedEmail |-> invitedEmail,
     inviter |-> inviter]

NoData == SummaryData(FALSE, "", {}, NoPendingInvite)

\* emptySummary (part_003:83-92)
emptySummary == SummaryData(TRUE, "", {}, NoPendingInvite)

\* GET /api/family/summary (part_003:116-385) when Firestore answers every call
Summary(s, session) ==
    LET first == FirstFamilyId(s, session.uid)
        recovered == IF first # "" THEN "" ELSE RecoveredFamilyId(s, session)
        familyId == IF first # "" THEN first ELSE recovered
        linked == IF recovered # "" THEN relinkUserPrimaryFamily(s, session.uid, recovered)
                  ELSE s
        viewer == FamilyViewerMember(linked, familyId, session)
        viewerDoc == linked.members[familyId][viewer]
    IN IF familyId = "" THEN FamilyResult(JsonSuccess(200, FALSE, NoUser), emptySummary, s)
       ELSE IF familyId \notin linked.families
       THEN FamilyResult(MapError("summary", FirestoreHttpError(404, DocumentNotFound(100))),
                         NoData, linked)
       ELSE IF viewer # "" /\ toMemberStatus(viewerDoc.status) = "invited"
       THEN FamilyResult(JsonSuccess(200, FALSE, NoUser),
                         SummaryData(FALSE, familyId, Inviter(linked, familyId, viewer),
                                     PendingInvite(familyId,
                                                   IF viewerDoc.email # "" THEN viewerDoc.email
                                                   ELSE NormalizeEmail(session.email),
                                                   Inviter(linked, familyId, viewer))),
                         linked)
       ELSE FamilyResult(JsonSuccess(200, FALSE, NoUser),
                         [SummaryData(FALSE, familyId, MappedMembers(linked, familyId),
                                      NoPendingInvite)
                            EXCEPT !.choresToday = SummaryChores(familyId, Today)],
                         linked)

\* the family the accept handler looks in (part_002:76-107)
AcceptFamilyId(s, session) ==
    FirstNonEmpty(FirstFamilyId(s, session.uid),
                  InviteLookupFamilyId(s, session.email),
                  findFirstFamilyIdByMemberEmail(s, session.email))

InviteName_OfSession(inviteDoc, session) ==
    IF ~Falsy(session.name) THEN session.name ELSE "Family member"

\* readString(inviteDoc.fields, "name") || session.name || "Family member"
InviteName(inviteDoc, session) ==
    IF inviteDoc.name # "" THEN inviteDoc.name
    ELSE IF ~Falsy(session.name) THEN session.name ELSE "Family member"

\* POST /api/family/invite/accept (part_002:59-164) when Firestore answers every
\* call; getDocument of a document that is not there throws
AcceptInvite(s, session) ==
    LET normalizedEmail == NormalizeEmail(session.email)
        familyId == AcceptFamilyId(s, session)
        inviteDoc == s.members[familyId][normalizedEmail]
        accepted == [s EXCEPT !.members[familyId][session.uid] =
                        FamilyMember(session.uid, normalizedEmail, RoleOf(inviteDoc), "active",
                                     FALSE, InviteName(inviteDoc, session), "")]
    IN IF normalizedEmail = ""
       THEN FamilyResult(JsonError(400, "session_email_missing"), NoData, s)
       ELSE IF familyId = ""
       THEN FamilyResult(RespondTo("accept", "invite_not_found", FALSE, NoUser), NoData, s)
       ELSE IF normalizedEmail \notin FamilyMemberIds \/ ~inviteDoc.exists
       THEN FamilyResult(MapError("accept", FirestoreHttpError(404, DocumentNotFound(100))),
                         NoData, s)
       ELSE IF inviteDoc.deleted
       THEN FamilyResult(RespondTo("accept", "invite_not_found", FALSE, NoUser), NoData, s)
       ELSE FamilyResult(RespondTo("accept", "ok", FALSE, NoUser),
                         SummaryData(FALSE, familyId, {}, NoPendingInvite),
                         relinkUserPrimaryFamily(accepted, session.uid, familyId))

\* the names randomUUID() can give: the first one not taken
FreshFamilyId(s) ==
    LET free == SelectSeq(FamilyOrder, LAMBDA f : f \notin s.families)
    IN IF free = <<>> THEN "" ELSE Head(free)

FreshMemberId(s, familyId) ==
    LET free == SelectSeq(<<"r1", "r2">>, LAMBDA m : ~s.members[familyId][m].exists)
    IN IF free = <<>> THEN "" ELSE Head(free)

\* createFamilyForUser (reinvite/route.ts:284-327)
createFamilyForUser(s, session, familyId) ==
    [s EXCEPT !.families = @ \cup { familyId },
              !.members[familyId][session.uid] =
                  FamilyMember(session.uid, session.email, "admin", "active", FALSE,
                               IF Falsy(session.name) THEN "Parent" ELSE session.name, ""),
              !.users[session.uid] = UserDoc(<<familyId>>)]

\* the family the new member goes to (reinvite/route.ts:378-395)
FamilyForNewMember(s, session) ==
    FirstNonEmpty(FirstFamilyId(s, session.uid),
                  findFirstFamilyIdByMemberUid(s, session.uid),
                  FreshFamilyId(s))

\* POST /api/family/members (reinvite/route.ts:345-447) with a valid body, when
\* Firestore answers every call
AddMember(s, session, name, email, role) ==
    LET familyId == FamilyForNewMember(s, session)
        prepared ==
            IF FirstFamilyId(s, session.uid) # "" THEN s
            ELSE IF findFirstFamilyIdByMemberUid(s, session.uid) # ""
            THEN relinkUserPrimaryFamily(s, session.uid, familyId)
            ELSE createFamilyForUser(s, session, familyId)
        memberId == FreshMemberId(prepared, familyId)
    IN FamilyResult(JsonSuccess(201, FALSE, NoUser),
                    SummaryData(FALSE, familyId, { memberId }, NoPendingInvite),
                    [prepared EXCEPT !.members[familyId][memberId] =
                        FamilyMember("", email, role, "invited", FALSE, name, session.uid)])

Fails(handler, s) ==
    FamilyResult(MapError(handler, FirestoreHttpError(404, DocumentNotFound(100))), NoData, s)

Refuses(handler, kind, s) ==
    FamilyResult(RespondTo(handler, kind, FALSE, NoUser), NoData, s)

\* the member document the re-invite leaves under the e-mail address
\* (reinvite/route.ts:106-119)
EmailKeyedMember(memberDoc, session) ==
    FamilyMember("", NormalizeEmail(memberDoc.email), RoleOf(memberDoc), "invited", FALSE,
                 IF memberDoc.name = "" THEN "Unnamed member" ELSE memberDoc.name,
                 IF memberDoc.createdBy = "" THEN session.uid ELSE memberDoc.createdBy)

\* POST /api/family/members/<memberId>/reinvite (reinvite/route.ts:48-166) when
\* Firestore answers every call
Reinvite(s, session, memberId) ==
    LET familyId == FirstFamilyId(s, session.uid)
        memberDoc == s.members[familyId][memberId]
        memberEmail == NormalizeEmail(memberDoc.email)
        lookup == LookupDoc(memberEmail, familyId, RoleOf(memberDoc), "invited")
    IN IF ~s.users[session.uid].exists THEN Fails("reinvite", s)
       ELSE IF familyId = "" THEN Refuses("reinvite", "family_not_found", s)
       ELSE IF ~s.members[familyId][session.uid].exists THEN Fails("reinvite", s)
       ELSE IF s.members[familyId][session.uid].role # "admin"
       THEN Refuses("reinvite", "not_allowed", s)
       ELSE IF ~memberDoc.exists THEN Fails("reinvite", s)
       ELSE IF memberId = session.uid \/ memberDoc.uid = session.uid
       THEN Refuses("reinvite", "cannot_reinvite_self", s)
       ELSE IF memberEmail = "" THEN Refuses("reinvite", "member_email_required", s)
       ELSE IF memberDoc.deleted THEN Refuses("reinvite", "member_not_found", s)
       ELSE IF memberDoc.uid = "" /\ memberEmail # memberId
       THEN FamilyResult(RespondTo("reinvite", "ok", FALSE, NoUser),
                         SummaryData(FALSE, familyId, { memberEmail }, NoPendingInvite),
                         [s EXCEPT !.members[familyId][memberEmail] =
                                       EmailKeyedMember(memberDoc, session),
                                   !.members[familyId][memberId].deleted = TRUE,
                                   !.lookups[memberEmail] = lookup])
       ELSE FamilyResult(RespondTo("reinvite", "ok", FALSE, NoUser),
                         SummaryData(FALSE, familyId, { memberId }, NoPendingInvite),
                         [s EXCEPT !.members[familyId][memberId].status = "invited",
                                   !.lookups[memberEmail] = lookup])

\* a request to one of the four family handlers, past authentication and
\* validation: the member a re-invite names, the name, address and role of a new one
FamilyCall(handler, session, id, name, email, role) ==
    [handler |-> handler, session |-> session, id |-> id, name |-> name, email |-> email,
     role |-> role]

FamilyCalls ==
    { FamilyCall("summary", Admin, "", "", "", ""),
      FamilyCall("summary", Invitee, "", "", "", ""),
      FamilyCall("accept", Invitee, "", "", "", ""),
      FamilyCall("reinvite", Admin, "r1", "", "", ""),
      FamilyCall("reinvite", Admin, "u2", "", "", ""),
      FamilyCall("addMember", Admin, "", "Kid", "e@x", "admin"),
      FamilyCall("addMember", Admin, "", "Tot", "", "player"),
      FamilyCall("addMember", Invitee, "", "Pal", "", "player") }

\* the invited user's documents before the calls: users/u2, a member document
\* with their uid, inviteLookup/e@x, the member document named by the address,
\* and an invite the add-member handler wrote in f1
InviteeUserDocs == { NoUserDoc, UserDoc(<<>>), UserDoc(<<"f2">>) }

InviteeLookups ==
    { NoLookup, LookupDoc("e@x", "f1", "player", "invited"),
      LookupDoc("e@x", "f2", "player", "claimed"), LookupDoc("e@x", "f1", "player", "revoked") }

AddedInvites ==
    { NoMember, FamilyMember("", "e@x", "player", "invited", FALSE, "Kid", "u1"),
      FamilyMember("", "e@x", "player", "invited", TRUE, "Kid", "u1"),
      FamilyMember("", "", "player", "invited", FALSE, "Tot", "u1") }

NoFamilyOrIn == { "", "f1", "f2" }

FamilyWith(userDoc, uidFamily, lookup, keyedFamily, added) ==
    FamilyStore([u \in UserIds |-> IF u = "u1" THEN UserDoc(<<"f1">>) ELSE userDoc],
                [f \in FamilyIds |-> [m \in FamilyMemberIds |->
                    CASE f = "f1" /\ m = "u1" ->
                             FamilyMember("u1", "a@x", "admin", "active", FALSE, "N", "")
                      [] m = "u2" /\ f = uidFamily ->
                             FamilyMember("u2", "e@x", "player", "active", FALSE, "Kid", "")
                      [] m = "e@x" /\ f = keyedFamily ->
                             FamilyMember("", "e@x", "player", "invited", FALSE, "Kid", "u1")
                      [] f = "f1" /\ m = "r1" -> added
                      [] OTHER -> NoMember]],
                [e \in LookupIds |-> lookup],
                { "f1", "f2" })

\* a family with its admin and nobody else
AdminOnly == FamilyWith(NoUserDoc, "", NoLookup, "", NoMember)

InitFamilyStores ==
    { FamilyWith(userDoc, uidFamily, lookup, keyedFamily, added) :
        userDoc \in InviteeUserDocs, uidFamily \in NoFamilyOrIn, lookup \in InviteeLookups,
        keyedFamily \in NoFamilyOrIn, added \in AddedInvites }

InitFamily ==
    /\ secret = ServerSecret
    /\ nowMs = 0
    /\ ticks = 0
    /\ token = Undefined
    /\ edits = 0
    /\ issued = NotIssued
    /\ parsed = NotParsed
    /\ apiKey = TRUE
    /\ IdleServer
    /\ store \in InitFamilyStores
    /\ expired = {}
    /\ work = NoWork
    /\ history = <<>>

FamilyAnswered(call, before, result) ==
    [call |-> call, before |-> before, response |-> result.response, data |-> result.data,
     after |-> result.store]

\* the store the calls started from
StartedFrom == IF history = <<>> THEN store ELSE history[1].before

CallLimit == IF StartedFrom = AdminOnly THEN MaxInviteCalls ELSE MaxFamilyCalls

Answer(call, result) ==
    /\ Len(history) < CallLimit
    /\ store' = result.store
    /\ history' = Append(history, FamilyAnswered(call, store, result))
    /\ UNCHANGED <<apiKey, request, pc, run, response, expired, work>>
    /\ UNCHANGED sessionVars

GetFamilySummary(call) ==
    /\ call.handler = "summary"
    /\ Answer(call, Summary(store, call.session))

PostAcceptInvite(call) ==
    /\ call.handler = "accept"
    /\ Answer(call, AcceptInvite(store, call.session))

PostReinvite(call) ==
    /\ call.handler = "reinvite"
    /\ Answer(call, Reinvite(store, call.session, call.id))

PostAddMember(call) ==
    /\ call.handler = "addMember"
    /\ FamilyForNewMember(store, call.session) # ""
    /\ \/ FirstFamilyId(store, call.session.uid) = ""
          /\ findFirstFamilyIdByMemberUid(store, call.session.uid) = ""
       \/ FreshMemberId(store, FamilyForNewMember(store, call.session)) # ""
    /\ Answer(call, AddMember(store, call.session, call.name, call.email, call.role))

NextFamily ==
    \E call \in FamilyCalls :
        \/ GetFamilySummary(call)
        \/ PostAcceptInvite(call)
        \/ PostReinvite(call)
        \/ PostAddMember(call)

SpecFamily == InitFamily /\ [][NextFamily]_vars

-----------------------------------------------------------------------------
(* Properties of the family handlers *)

IsSummary(i) == history[i].call.handler = "summary" /\ history[i].response.status = 200

\* the member documents of the family a summary was answered from
DocsOf(i) == history[i].after.members[history[i].data.familyId]

\* C13: a summary lists no member whose document is deleted, and never lists an
\* invite without a uid together with a member with a uid under the same
\* e-mail address
C13_MembersReconciled ==
    \A i \in 1..Len(history) :
        IsSummary(i) /\ ~history[i].data.noFamily =>
            \A row \in history[i].data.members :
                /\ DocsOf(i)[row.id].exists /\ ~DocsOf(i)[row.id].deleted
                /\ row.uid = "" /\ NormalizeEmail(row.email) # "" =>
                       \A other \in history[i].data.members :
                           other.uid # "" =>
                               NormalizeEmail(other.email) # NormalizeEmail(row.email)

\* a summary left out an invite whose address a listed member with a uid has,
\* from a family that also holds a deleted member document
C13_Witness ==
    \E i \in 1..Len(history) :
        /\ IsSummary(i) /\ ~history[i].data.noFamily
        /\ \E m \in FamilyMemberIds : DocsOf(i)[m].exists /\ DocsOf(i)[m].deleted
        /\ \E m \in FamilyMemberIds :
               /\ DocsOf(i)[m].exists /\ ~DocsOf(i)[m].deleted /\ DocsOf(i)[m].uid = ""
               /\ \A row \in history[i].data.members : row.id # m
               /\ \E row \in history[i].data.members :
                      row.uid # "" /\ NormalizeEmail(row.email) = NormalizeEmail(DocsOf(i)[m].email)


\* the family a summary answered for, "" when it answered noFamily
ResolvedFamily(i) == IF history[i].data.noFamily THEN "" ELSE history[i].data.familyId

HasMemberWithUid(s, familyId, uid) ==
    \E m \in FamilyMemberIds :
        s.members[familyId][m].exists /\ s.members[familyId][m].uid = uid

HasLiveMemberWithEmail(s, familyId, email) ==
    \E m \in FamilyMemberIds :
        /\ s.members[familyId][m].exists /\ ~s.members[familyId][m].deleted
        /\ s.members[familyId][m].email = email

HasOpenLookup(s, email) ==
    /\ email \in LookupIds /\ s.lookups[email].exists
    /\ s.lookups[email].status \in { "invited", "claimed" }

\* the step of the precedence that decides for the viewer of call i
DecidedBy(i) ==
    LET s == history[i].before
        viewer == history[i].call.session
    IN IF s.users[viewer.uid].exists /\ s.users[viewer.uid].familyIds # <<>> THEN "familyIds"
       ELSE IF \E f \in FamilyIds : HasMemberWithUid(s, f, viewer.uid) THEN "uid"
       ELSE IF HasOpenLookup(s, NormalizeEmail(viewer.email)) THEN "inviteLookup"
       ELSE IF \E f \in FamilyIds : HasLiveMemberWithEmail(s, f, NormalizeEmail(viewer.email))
       THEN "email"
       ELSE "none"

\* C17: the summary takes the viewer's family from users/<uid>.familyIds[0], else
\* from a member document with the viewer's uid, else from inviteLookup/<email>
\* with status invited or claimed, else from a member document with the viewer's
\* address that is not deleted; with none of them it answers noFamily without a
\* family and writes nothing, with familyIds[0] it writes nothing, and with a
\* family from one of the other three it has set users/<uid>.familyIds to
\* exactly that family
C17_FamilyPrecedence ==
    \A i \in 1..Len(history) :
        IsSummary(i) =>
            LET s == history[i].before
                viewer == history[i].call.session
                email == NormalizeEmail(viewer.email)
                family == ResolvedFamily(i)
            IN /\ DecidedBy(i) = "familyIds" =>
                      family = Head(s.users[viewer.uid].familyIds) /\ history[i].after = s
               /\ DecidedBy(i) = "uid" => HasMemberWithUid(s, family, viewer.uid)
               /\ DecidedBy(i) = "inviteLookup" => family = s.lookups[email].familyId
               /\ DecidedBy(i) = "email" => HasLiveMemberWithEmail(s, family, email)
               /\ DecidedBy(i) = "none" =>
                      /\ history[i].data.noFamily /\ history[i].data.familyId = ""
                      /\ history[i].after = s
               /\ DecidedBy(i) \in { "uid", "inviteLookup", "email" } =>
                      /\ family # ""
                      /\ history[i].after = [s EXCEPT !.users[viewer.uid] = UserDoc(<<family>>)]

\* a viewer without familyIds is a member under their uid in one family while
\* inviteLookup and an invite under their address name another: the summary
\* answered for the family of the uid and linked it
C17_Witness ==
    \E i \in 1..Len(history) :
        /\ IsSummary(i) /\ DecidedBy(i) = "uid"
        /\ HasOpenLookup(history[i].before, "e@x")
        /\ history[i].before.lookups["e@x"].familyId # ResolvedFamily(i)
        /\ \E f \in FamilyIds \ { ResolvedFamily(i) } :
               HasLiveMemberWithEmail(history[i].before, f, "e@x")
        /\ history[i].after.users["u2"] = UserDoc(<<ResolvedFamily(i)>>)


IsBy(i, handler, session) ==
    history[i].call.handler = handler /\ history[i].call.session = session

\* call a is the admin adding a member with the invited address
AddedInvitee(a) ==
    /\ IsBy(a, "addMember", Admin) /\ history[a].response.status = 201
    /\ NormalizeEmail(history[a].call.email) = NormalizeEmail(Invitee.email)

\* call b is the admin re-inviting the member that call a added
ReinvitedInvitee(a, b) ==
    /\ a < b /\ AddedInvitee(a)
    /\ IsBy(b, "reinvite", Admin) /\ history[b].response.status = 200
    /\ history[b].call.id \in history[a].data.members

\* up to call k the only re-invite is call b
ReinvitedOnce(b, k) ==
    \A j \in 1..k : history[j].call.handler = "reinvite" => j = b

\* before call k the invited user has no family but the one they were invited to
NoOtherFamily(a, k) ==
    /\ FirstFamilyId(history[k].before, Invitee.uid) \in { "", history[a].data.familyId }
    /\ \A f \in FamilyIds \ { history[a].data.familyId } :
           ~HasMemberWithUid(history[k].before, f, Invitee.uid)

AcceptedBefore(b, k) ==
    \E d \in (b + 1)..(k - 1) : IsBy(d, "accept", Invitee) /\ history[d].response.status = 200

\* C19: once an admin has added a member with an address and re-invited that
\* member once, the summary of a user signed in with the address who has no
\* family shows a pending invite, their accept succeeds and leaves
\* members/<uid> active, not deleted, with the role and name of the invite and
\* users/<uid>.familyIds = [familyId], and their summaries after that show no
\* pending invite
C19_InviteFlow ==
    \A a \in 1..Len(history), b \in 1..Len(history) :
        ReinvitedInvitee(a, b) =>
            \A k \in (b + 1)..Len(history) :
                ReinvitedOnce(b, k) /\ NoOtherFamily(a, k) =>
                    LET familyId == history[a].data.familyId
                    IN /\ ( /\ IsBy(k, "summary", Invitee)
                            /\ ~HasMemberWithUid(history[k].before, familyId, Invitee.uid) ) =>
                              /\ history[k].response.status = 200
                              /\ history[k].data.pendingInvite.exists
                              /\ history[k].data.pendingInvite.familyId = familyId
                       /\ IsBy(k, "accept", Invitee) =>
                              /\ history[k].response.status = 200
                              /\ history[k].after.members[familyId][Invitee.uid] =
                                     FamilyMember(Invitee.uid, NormalizeEmail(Invitee.email),
                                                  history[a].call.role, "active", FALSE,
                                                  history[a].call.name, "")
                              /\ history[k].after.users[Invitee.uid] = UserDoc(<<familyId>>)
                       /\ IsBy(k, "summary", Invitee) /\ AcceptedBefore(b, k) =>
                              /\ history[k].response.status = 200
                              /\ ~history[k].data.noFamily
                              /\ ~history[k].data.pendingInvite.exists

\* add, re-invite, a summary with the pending invite, the accept, and a summary
\* without a pending invite, in this order
C19_Witness ==
    \E a \in 1..Len(history), b \in 1..Len(history), c \in 1..Len(history),
       d \in 1..Len(history), e \in 1..Len(history) :
        /\ ReinvitedInvitee(a, b) /\ b < c /\ c < d /\ d < e /\ ReinvitedOnce(b, e)
        /\ IsBy(c, "summary", Invitee) /\ history[c].data.pendingInvite.exists
        /\ FirstFamilyId(history[c].before, Invitee.uid) = ""
        /\ IsBy(d, "accept", Invitee) /\ history[d].response.status = 200
        /\ IsBy(e, "summary", Invitee) /\ ~history[e].data.pendingInvite.exists
        /\ history[e].after.members["f1"]["u2"].status = "active"


\* the family the accept of call i looked in has a member document named by the
\* caller's address that is not deleted
HasLiveInvite(i) ==
    LET s == history[i].before
        email == NormalizeEmail(history[i].call.session.email)
        familyId == AcceptFamilyId(s, history[i].call.session)
    IN /\ familyId # "" /\ email \in FamilyMemberIds
       /\ s.members[familyId][email].exists /\ ~s.members[familyId][email].deleted

\* C20: an accept that finds no member document named by the caller's address
\* that is not deleted in the resolved family, also when the family holds only
\* an invite under a random name, answers 404 invite_not_found and writes
\* nothing
C20_NoInviteIsNotFound ==
    \A i \in 1..Len(history) :
        history[i].call.handler = "accept" /\ ~HasLiveInvite(i) =>
            /\ history[i].response.status = 404
            /\ history[i].response.error = "invite_not_found"
            /\ history[i].after = history[i].before

-----------------------------------------------------------------------------
(* Properties of the re-invite handler *)

\* the steps of the work function from the read of the target member on
TargetSteps == { "getMember", "putEmailKeyed", "patchLegacy", "patchInvited", "putLookup" }

IsReinvite(i) == history[i].request.handler = "reinvite"

\* the requester's member document before call i
RequesterDoc(i) == history[i].before.members[history[i].request.session.uid]

OwnRecords(i) ==
    LET viewer == history[i].call.session
        live == { m \in FamilyMemberIds : DocsOf(i)[m].exists /\ ~DocsOf(i)[m].deleted }
        byUid == { m \in live : DocsOf(i)[m].uid = viewer.uid }
        byEmail == { m \in live : /\ DocsOf(i)[m].uid = ""
                                  /\ NormalizeEmail(DocsOf(i)[m].email) = NormalizeEmail(viewer.email) }
    IN IF byUid # {} THEN byUid ELSE byEmail

IsInvitedViewer(i) ==
    /\ IsSummary(i) /\ ~history[i].data.noFamily
    /\ OwnRecords(i) # {}
    /\ \A m \in OwnRecords(i) : DocsOf(i)[m].status = "invited"

\* C22: when the viewer's own member record in the resolved family has the
\* status invited, the summary carries a pending invite, no chore, and no member
\* but the one who created an invite of the viewer
C22_PendingDisclosesNothing ==
    \A i \in 1..Len(history) :
        IsInvitedViewer(i) =>
            /\ history[i].data.pendingInvite.exists
            /\ history[i].data.choresToday = {}
            /\ Cardinality(history[i].data.members) <= 1
            /\ \A row \in history[i].data.members :
                   \E m \in OwnRecords(i) :
                       row.uid = DocsOf(i)[m].createdBy \/ row.id = DocsOf(i)[m].createdBy

\* an invited viewer got a pending summary from a family that has chores due
\* today and members other than the inviter
C22_Witness ==
    \E i \in 1..Len(history) :
        /\ IsInvitedViewer(i)
        /\ history[i].data.pendingInvite.exists
        /\ Cardinality(history[i].data.members) = 1
        /\ SummaryChores(history[i].data.familyId, Today) # {}
        /\ \E m \in FamilyMemberIds \ OwnRecords(i) :
               /\ DocsOf(i)[m].exists /\ ~DocsOf(i)[m].deleted
               /\ \A row \in history[i].data.members : row.id # m

IsActiveViewer(i) ==
    /\ IsSummary(i) /\ ~history[i].data.noFamily
    /\ OwnRecords(i) # {}
    /\ \A m \in OwnRecords(i) : DocsOf(i)[m].status = "active"

Vocabulary == { <<"Open">>, <<"Submitted">>, <<"Approved">>, <<"Rejected">> }

StoredChore(i, c) == FamilyChoreDocs(history[i].data.familyId)[c]

StoredStatus(i, c) == Field(StoredChore(i, c).fields, "status").text

IsDueAndLive(i, c) ==
    /\ StoredChore(i, c).exists
    /\ Field(StoredChore(i, c).fields, "dueDate").text = Today
    /\ Field(StoredChore(i, c).fields, "deleted") = boolField(FALSE)

\* C29: for an active member the summary's choresToday are exactly the chore
\* documents of the family that are due today and whose deleted flag is false,
\* each with its stored status when that is Open, Submitted, Approved or
\* Rejected and with Unknown otherwise
C29_ChoresToday ==
    \A i \in 1..Len(history) :
        IsActiveViewer(i) =>
            /\ { row.id : row \in history[i].data.choresToday } =
                   { c \in { "c1", "c2", "c3", "c4", "c5", "c6" } : IsDueAndLive(i, c) }
            /\ \A row \in history[i].data.choresToday :
                   /\ row.status \in Vocabulary \cup { <<"Unknown">> }
                   /\ StoredStatus(i, row.id) \in Vocabulary => row.status = StoredStatus(i, row.id)
                   /\ StoredStatus(i, row.id) \notin Vocabulary => row.status = <<"Unknown">>

\* an active member's summary reported an open chore, a submitted one and one
\* with an unknown status, and left out a deleted one and one due tomorrow
C29_Witness ==
    \E i \in 1..Len(history) :
        /\ IsActiveViewer(i)
        /\ \E row \in history[i].data.choresToday : row.status = <<"Open">>
        /\ \E row \in history[i].data.choresToday : row.status = <<"Submitted">>
        /\ \E row \in history[i].data.choresToday :
               row.status = <<"Unknown">> /\ StoredStatus(i, row.id) = <<"Done">>
        /\ \E c \in { "c2", "c3" } :
               StoredChore(i, c).exists /\ \A row \in history[i].data.choresToday : row.id # c

-----------------------------------------------------------------------------
(* Properties of the responses after a refresh *)

\* C23: whenever the wrapper returned with refreshed = true, the response of
\* the handler sets the session_user cookie to the refreshed session, whatever
\* kind of result the work function returned
C23_RefreshedSetsCookie ==
    pc = "done" /\ run.refreshed /\ run.thrown = NoError =>
        /\ response.setCookie
        /\ response.cookie = run.session


IdentityFields == { "uid", "role", "email", "name", "picture" }

\* C24: the session the wrapper returns is the input session when refreshed is
\* false, and with refreshed true it has the input's uid, role, email, name
\* and picture: only the two Firebase tokens can differ
C24_RefreshKeepsIdentity ==
    pc = "respond" =>
        /\ ~run.refreshed => run.session = request.session
        /\ run.refreshed => \A f \in IdentityFields : run.session[f] = request.session[f]

\* the wrapper returned after a refresh that changed both tokens
C24_Witness ==
    /\ pc = "respond" /\ run.refreshed
    /\ run.session.firebaseIdToken # request.session.firebaseIdToken
    /\ run.session.firebaseRefreshToken # request.session.firebaseRefreshToken
    /\ run.session.uid = request.session.uid

-----------------------------------------------------------------------------
(* Properties of the usage counters of one request *)

\* POST /api/chores starts one callback per title inside Promise.all
\* (part_006:332-348); the Creators are these callbacks when all the titles of
\* the request have the same usage key
TitlesWithKey == Cardinality(Creators)

RECURSIVE PlusN(_, _)
PlusN(v, n) == IF n = 0 THEN v ELSE PlusN(PlusOne(v), n - 1)

\* C25: when every callback of the request has finished without a failure, the
\* familyCount and the globalCount of the usage key have both grown by exactly
\* the number of submitted titles with that key
C25_CountsGrowByTitles ==
    (\A r \in Creators : work[r].step = "done") =>
        \A p \in UsagePaths :
            StoredCount(store[p], p) = PlusN(StoredCount(history.initial[p], p), TitlesWithKey)

-----------------------------------------------------------------------------
(* Properties of the session round trip *)

BeforeExpiry == NowSeconds(nowMs) <= NowSeconds(issued.atMs) + SESSION_MAX_AGE_SECONDS

\* C26: createSessionToken returns null exactly when SESSION_SECRET is unset or
\* shorter than 32 characters; otherwise parsing the token it returned, not
\* later than its expiry, yields the user's uid, role, email, name, picture,
\* firebaseIdToken and firebaseRefreshToken as they were given, and no exp
C26_RoundTrip ==
    issued.live =>
        /\ (~secret.isSet \/ secret.len < MinSecretLength) => issued.token = Undefined
        /\ (secret.isSet /\ secret.len >= MinSecretLength) =>
              /\ issued.token # Undefined
              /\ (token = issued.token /\ parsed # NotParsed /\ BeforeExpiry) =>
                    /\ parsed.kind = "user"
                    /\ DOMAIN parsed.user = { UserFields[i] : i \in 1..Len(UserFields) }
                    /\ \A f \in DOMAIN parsed.user : parsed.user[f] = issued.user[f]

\* a token issued for a user without Firebase tokens has been parsed in the
\* last second of its life and gave the user back
C26_Witness ==
    /\ issued.live /\ token = issued.token
    /\ issued.user.firebaseIdToken = UNDEF
    /\ NowSeconds(nowMs) = NowSeconds(issued.atMs) + SESSION_MAX_AGE_SECONDS
    /\ parsed = Result("user", issued.user)

-----------------------------------------------------------------------------
(* Properties of the rejections of the re-invite handler *)

\* the target member document before call i
Target(i) == history[i].before.members[history[i].request.id]

TargetIsSelf(i) ==
    \/ history[i].request.id = history[i].request.session.uid
    \/ Target(i).uid = history[i].request.session.uid

PassesChecks(i) ==
    /\ Target(i).exists
    /\ ~TargetIsSelf(i)
    /\ NormalizeEmail(Target(i).email) # ""
    /\ ~Target(i).deleted

RejectedWith(i, status, error) ==
    /\ history[i].writes = <<>>
    /\ ~history[i].failed =>
           /\ history[i].response.status = status
           /\ history[i].response.error = error

\* the three rejections of the work function, as answered at route.ts:169-177
IsRejection(resp) ==
    \/ resp.status = 400 /\ resp.error \in { "cannot_reinvite_self", "member_email_required" }
    \/ resp.status = 404 /\ resp.error = "member_not_found"

\* C27: a re-invite by an admin of a target that is the requester is answered
\* 400 cannot_reinvite_self, else of a target without an e-mail address 400
\* member_email_required, else of a target flagged deleted 404 member_not_found,
\* each without a write, and no call answered with one of these rejections has
\* written; a call that writes has a target passing the three
\* checks, and a call answered 200 has written inviteLookup/<email> and left an
\* invited member document for that address
C27_RejectionsInOrder ==
    \A i \in 1..Len(history) :
        IsReinvite(i) =>
            /\ (ByAdmin(history[i]) /\ Target(i).exists) =>
                   /\ TargetIsSelf(i) => RejectedWith(i, 400, "cannot_reinvite_self")
                   /\ (~TargetIsSelf(i) /\ NormalizeEmail(Target(i).email) = "") =>
                          RejectedWith(i, 400, "member_email_required")
                   /\ ( /\ ~TargetIsSelf(i)
                        /\ NormalizeEmail(Target(i).email) # ""
                        /\ Target(i).deleted ) =>
                          RejectedWith(i, 404, "member_not_found")
            /\ IsRejection(history[i].response) => history[i].writes = <<>>
            /\ history[i].writes # <<>> => ByAdmin(history[i]) /\ PassesChecks(i)
            /\ history[i].response.status = 200 =>
                   /\ PassesChecks(i)
                   /\ Wrote(history[i], Write("put", "inviteLookup", NormalizeEmail(Target(i).email)))
                   /\ \/ Wrote(history[i], Write("patch", "members", history[i].request.id))
                      \/ Wrote(history[i], Write("put", "members", NormalizeEmail(Target(i).email)))

-----------------------------------------------------------------------------
(* POST /api/chores from the request to the answer: part_006:255-371 *)

\* a chore document with the family it was written under
ChoreAt(familyId, fields) == [familyId |-> familyId, fields |-> fields]

\* users/<uid>, the chore documents in the order they were written, and how
\* often each usage document of the key all titles of the model have was
\* replaced
CreateStore(users, chores, usage) == [users |-> users, chores |-> chores, usage |-> usage]

InitCreateStores ==
    { CreateStore([u \in UserIds |-> UserDoc(familyIds)], <<>>, [p \in UsagePaths |-> 0]) :
        familyIds \in { <<FamilyId>>, <<>> } }

\* the locals of the work function and the created count it returns
CreateWork(before) ==
    [step |-> "none", attempt |-> 0, idToken |-> "", familyId |-> "", member |-> NoDoc,
     writes |-> <<>>, before |-> before, created |-> 0]

ManyTitles == [i \in 1..(MaxTitlesPerRequest + 1) |-> JsString(<<"D">>)]

CreateBodies ==
    { OneTitle, TwoTitles,
      Body("object", JsString(<<"D">>), JsArray(<<JsString(<<"D">>), JsString(<<" ", "d">>)>>),
           JsUndefined, JsUndefined),
      Body("object", JsString(<<" ">>), JsArray(<<JsString(<<"D">>)>>), JsUndefined, JsUndefined),
      Body("object", JsNumber,
           JsArray(<<JsString(<<"D">>), JsNumber, JsString(<<" ">>), JsString(<<" ", "d">>)>>),
           JsUndefined, JsUndefined),
      Body("object", JsNumber, JsArray(<<JsNumber, JsString(<<" ">>)>>), JsUndefined, JsUndefined),
      Body("object", JsUndefined, JsArray(ManyTitles), JsUndefined, JsUndefined) }

\* the cookies of u1 (ID token and refresh token) and u2 (refresh token only)
CreateCookies ==
    { createSessionToken(u, ServerSecret, 0) : u \in { x \in Users : x.uid \in UserIds } }

CreateRequests ==
    { Request("choresCreate", c, "", TRUE, b) : c \in CreateCookies, b \in CreateBodies }

InitCreate ==
    /\ secret = ServerSecret
    /\ nowMs = 0
    /\ ticks = 0
    /\ token = Undefined
    /\ edits = 0
    /\ issued = NotIssued
    /\ parsed = NotParsed
    /\ apiKey \in BOOLEAN
    /\ IdleServer
    /\ store \in InitCreateStores
    /\ expired = {}
    /\ work = CreateWork(store)
    /\ history = <<>>

\* part_006:255-296: one request from each store
CreateRequest(req) ==
    /\ pc = "idle"
    /\ request = NoRequest
    /\ request' = Admit(req).request
    /\ response' = Admit(req).response
    /\ pc' = Admit(req).pc
    /\ run' = NoRun
    /\ work' = CreateWork(store)
    /\ UNCHANGED <<apiKey, store, expired, history>>
    /\ UNCHANGED sessionVars

\* part_006:311-330: Promise.all over the titles, one chore document each
PutChores ==
    /\ pc = "work" /\ work.step = "putChore"
    /\ IF work.idToken \in expired
       THEN EndWork(Unauthorized, work.writes) /\ UNCHANGED store
       ELSE /\ store' = [store EXCEPT !.chores =
                            store.chores \o
                              [i \in 1..Len(Titles) |->
                                  ChoreAt(work.familyId,
                                          ChoreFields(Titles[i], Today, request.session.uid))]]
            /\ Continue([work EXCEPT
                           !.step = "incrementUsage",
                           !.writes = work.writes \o
                                        [i \in 1..Len(Titles) |->
                                            Write("put", "chores", Len(store.chores) + i)]])
    /\ UNCHANGED <<apiKey, request, response, expired, history>>
    /\ UNCHANGED sessionVars

\* part_006:332-350: Promise.all over the titles, each replacing the family and
\* the global usage document of its key once (the counts written are those of
\* NextCount); then return { kind: "ok", created: titles.length }
IncrementUsage ==
    /\ pc = "work" /\ work.step = "incrementUsage"
    /\ IF work.idToken \in expired
       THEN EndWork(Unauthorized, work.writes) /\ UNCHANGED store
       ELSE /\ store' = [store EXCEPT !.usage["family"] = @ + Len(Titles),
                                      !.usage["global"] = @ + Len(Titles)]
            /\ run' = AfterWork(run, work.attempt, work.idToken,
                                IF work.attempt = 1 THEN request.session ELSE run.session,
                                Returns("ok"))
            /\ pc' = PcAfterWork(work.attempt, Returns("ok"))
            /\ work' = [work EXCEPT !.step = "none",
                                    !.writes = Append(work.writes, Write("put", "usage", "d")),
                                    !.created = Len(Titles)]
    /\ UNCHANGED <<apiKey, request, response, expired, history>>
    /\ UNCHANGED sessionVars

NextCreate ==
    \/ \E req \in CreateRequests : CreateRequest(req)
    \/ BeginFirstAttempt
    \/ ExpireToken
    \/ GetUserDoc
    \/ PutChores
    \/ IncrementUsage
    \/ RefreshWithoutExchange
    \/ RefreshExchange
    \/ SecondAttemptWithoutToken
    \/ BeginSecondAttempt
    \/ Respond
    \/ Catch

SpecCreate == InitCreate /\ [][NextCreate]_vars

-----------------------------------------------------------------------------
(* Properties of POST /api/chores *)

NonBlank(v) == v.type = "string" /\ \E i \in 1..Len(v.str) : ~IsSpace(v.str[i])

\* the number of titles the request asks for: one for a non-blank description,
\* else the non-blank strings of the titles array, at most a hundred of them
ExpectedCreated(body) ==
    LET items == IF body.titles.type = "array" THEN body.titles.items ELSE <<>>
        counted == Cardinality({ i \in 1..Len(items) : NonBlank(items[i]) })
    IN IF NonBlank(body.description) THEN 1
       ELSE IF counted > MaxTitlesPerRequest THEN MaxTitlesPerRequest ELSE counted

\* the chore documents the request in progress has written
CreatedChores == { i \in 1..Len(store.chores) : i > Len(work.before.chores) }

HasNoFamily == PrimaryFamilyId(store.users[request.session.uid]) = ""

\* C28: every chore document POST /api/chores writes is under the requester's
\* primary family, with status Open, deleted false, coinValue 10 and createdBy
\* the session uid; a 201 answer reports as created the number of titles used
\* (1 for a non-blank description, else the non-blank string titles, at most
\* 100); a requester without a primary family is answered 404
\* family_not_found and nothing is written
C28_CreatedChores ==
    request.handler = "choresCreate" =>
        /\ \A i \in CreatedChores :
               /\ store.chores[i].familyId # ""
               /\ store.chores[i].familyId = PrimaryFamilyId(store.users[request.session.uid])
               /\ readString(store.chores[i].fields, "status") = <<"Open">>
               /\ Field(store.chores[i].fields, "deleted") = BooleanValue(FALSE)
               /\ readInteger(store.chores[i].fields, "coinValue") = Integer(10)
               /\ readString(store.chores[i].fields, "createdBy") = <<request.session.uid>>
        /\ (pc = "done" /\ response.status = 201) =>
               /\ work.created = ExpectedCreated(request.body)
               /\ work.created = Len(Titles)
               /\ Cardinality(CreatedChores) >= work.created
        /\ HasNoFamily =>
               /\ store = work.before
               /\ (pc = "done" /\ run.workCalls > 0 /\ run.thrown = NoError) =>
                      response.status = 404 /\ response.error = "family_not_found"

\* a request with a hundred and one titles was answered 201 after a refresh,
\* with created = 100
C28_Witness ==
    /\ pc = "done" /\ request.handler = "choresCreate"
    /\ response.status = 201 /\ run.refreshed
    /\ Len(request.body.titles.items) = MaxTitlesPerRequest + 1
    /\ work.created = MaxTitlesPerRequest
    /\ Cardinality(CreatedChores) >= MaxTitlesPerRequest

\* a requester without a primary family was answered 404 family_not_found
C28_NoFamily ==
    /\ pc = "done" /\ request.handler = "choresCreate"
    /\ HasNoFamily
    /\ response.status = 404 /\ response.error = "family_not_found"

-----------------------------------------------------------------------------
(* The Google sign-in callback: part_004:264-475 *)

\* a form field or cookie that is not there, and a form field holding a file
Absent == UNDEF
FileEntry == "<file>"

IsStringEntry(v) == v # Absent /\ v # FileEntry

\* the POST of the sign-in form: whether the body can be read as form data,
\* the g_csrf_token field and cookie, and the credential field
Callback(readable, csrfBody, csrfCookie, credential) ==
    [readable |-> readable, csrfBody |-> csrfBody, csrfCookie |-> csrfCookie,
     credential |-> credential]

NoCallback == Callback(TRUE, Absent, Absent, Absent)

Callbacks ==
    { Callback(TRUE, b, c, cred) :
        b \in { Absent, FileEntry, "", "t1", "t2" },
        c \in { Absent, "", "t1" },
        cred \in { Absent, FileEntry, "", "cred" } }
      \cup { Callback(FALSE, Absent, c, Absent) : c \in { Absent, "t1" } }

\* process.env.GOOGLE_CLIENT_ID
SignInEnv(clientId) == [GOOGLE_CLIENT_ID |-> clientId]

\* the answer of oauth2.googleapis.com/tokeninfo
TokenInfo(ok, aud, email) == [ok |-> ok, aud |-> aud, email |-> email]
NoTokenInfo == TokenInfo(FALSE, "", Absent)

TokenInfoAnswers ==
    { NoTokenInfo, TokenInfo(TRUE, "other", " E@x "), TokenInfo(TRUE, "cid", " E@x "),
      TokenInfo(TRUE, "cid", Absent) }

\* the answer of accounts:signInWithIdp; a 200 answer may carry the JSON null
FirebaseAnswer(ok, isNull, localId, email, idToken, refreshToken) ==
    [ok |-> ok, isNull |-> isNull, localId |-> localId, email |-> email,
     idToken |-> idToken, refreshToken |-> refreshToken]
NoFirebaseAnswer == FirebaseAnswer(FALSE, FALSE, "", Absent, "", Absent)

FirebaseAnswers ==
    { NoFirebaseAnswer,
      FirebaseAnswer(TRUE, TRUE, "", Absent, "", Absent),
      FirebaseAnswer(TRUE, FALSE, "u2", "e@x", "idB", "rtB"),
      FirebaseAnswer(TRUE, FALSE, "u2", Absent, "idB", Absent) }

\* the locals of the handler and the outbound calls it made
SignInWork(calls, tokenInfo, firebaseSession) ==
    [calls |-> calls, tokenInfo |-> tokenInfo, firebaseSession |-> firebaseSession]

\* NextResponse.redirect(url, 303) to "/" with the given error parameter
RedirectToRoot(error) == Response(303, error, FALSE, FALSE, NoUser)

\* a ?? b ?? ""
Coalesce(a, b) == IF a # Absent THEN a ELSE IF b # Absent THEN b ELSE ""

SignInStores ==
    { AdminOnly,
      FamilyWith(NoUserDoc, "", LookupDoc("e@x", "f1", "player", "invited"), "f1", NoMember),
      FamilyWith(NoUserDoc, "", NoLookup, "f2", NoMember),
      FamilyWith(UserDoc(<<"f2">>), "f2", NoLookup, "", NoMember) }

InitSignIn ==
    /\ secret = ServerSecret
    /\ nowMs = 0
    /\ ticks = 0
    /\ token = Undefined
    /\ edits = 0
    /\ issued = NotIssued
    /\ parsed = NotParsed
    /\ apiKey \in BOOLEAN
    /\ request = NoCallback
    /\ pc = "idle"
    /\ run \in { SignInEnv("cid"), SignInEnv("") }
    /\ response = NoResponse
    /\ store \in SignInStores
    /\ expired = {}
    /\ work = SignInWork(<<>>, NoTokenInfo, NoFirebaseAnswer)
    /\ history = <<>>

\* part_004:423-441: request.formData() is awaited outside the try block, so
\* a body that is no form data leaves the handler as an exception; then the
\* CSRF double-submit check and the credential check
ReceiveCallback(req) ==
    /\ pc = "idle" /\ request = NoCallback /\ req # NoCallback
    /\ request' = req
    /\ IF ~req.readable THEN response' = UnhandledError /\ pc' = "done"
       ELSE IF \/ ~IsStringEntry(req.csrfBody) \/ ~IsStringEntry(req.csrfCookie)
               \/ req.csrfBody = "" \/ req.csrfCookie = ""
               \/ req.csrfBody # req.csrfCookie
       THEN response' = RedirectToRoot("csrf_mismatch") /\ pc' = "done"
       ELSE IF ~IsStringEntry(req.credential) \/ req.credential = ""
       THEN response' = RedirectToRoot("missing_credential") /\ pc' = "done"
       ELSE response' = response /\ pc' = "tokeninfo"
    /\ UNCHANGED <<apiKey, run, store, expired, work, history>>
    /\ UNCHANGED sessionVars

\* part_004:264-284: verifyGoogleCredential
VerifyGoogleCredential ==
    /\ pc = "tokeninfo"
    /\ \E answer \in TokenInfoAnswers :
          /\ work' = [work EXCEPT !.calls = Append(@, "tokeninfo"),
                                  !.tokenInfo = IF answer.ok THEN answer ELSE @]
          /\ pc' = IF \/ ~answer.ok
                      \/ run.GOOGLE_CLIENT_ID = ""
                      \/ answer.aud # run.GOOGLE_CLIENT_ID
                   THEN "catch" ELSE "signin"
    /\ UNCHANGED <<apiKey, request, run, response, store, expired, history>>
    /\ UNCHANGED sessionVars

\* part_004:286-324: signInWithFirebase
SignInWithFirebase ==
    /\ pc = "signin"
    /\ IF ~apiKey THEN pc' = "catch" /\ UNCHANGED work
       ELSE \E answer \in FirebaseAnswers :
               /\ work' = [work EXCEPT !.calls = Append(@, "signInWithIdp"),
                                       !.firebaseSession = IF answer.ok THEN answer ELSE @]
               /\ pc' = IF ~answer.ok THEN "catch"
                        ELSE IF answer.isNull THEN "issue" ELSE "upsert"
    /\ UNCHANGED <<apiKey, request, run, response, store, expired, history>>
    /\ UNCHANGED sessionVars

\* part_004:337-389: the family a signing-in user is linked to
LinkedFamilyId(s, uid, email) ==
    LET lookup == s.lookups[email]
    IN IF FirstFamilyId(s, uid) # "" THEN FirstFamilyId(s, uid)
       ELSE IF email = "" THEN ""
       ELSE IF email \in DOMAIN s.lookups /\ lookup.exists
               /\ lookup.status = "invited" /\ lookup.familyId # ""
       THEN lookup.familyId
       ELSE findFirstFamilyIdByMemberEmail(s, email)

\* part_004:326-421: upsertFirebaseUser writes users/<uid>; a Firestore call
\* may fail
UpsertFirebaseUser ==
    /\ pc = "upsert"
    /\ LET uid == work.firebaseSession.localId
           normalizedEmail ==
               NormalizeEmail(Coalesce(work.tokenInfo.email, work.firebaseSession.email))
           linkedFamilyId == LinkedFamilyId(store, uid, normalizedEmail)
       IN \/ pc' = "catch" /\ UNCHANGED store
          \/ /\ store' = IF linkedFamilyId # ""
                         THEN [store EXCEPT !.users[uid] = UserDoc(<<linkedFamilyId>>)]
                         ELSE [store EXCEPT !.users[uid] = UserDoc(<<>>)]
             /\ pc' = "issue"
    /\ work' = [work EXCEPT !.calls = Append(@, "firestore")]
    /\ UNCHANGED <<apiKey, request, run, response, expired, history>>
    /\ UNCHANGED sessionVars

\* part_004:452-466: the redirect with the session cookie; reading localId of
\* a null answer throws
IssueSession ==
    /\ pc = "issue"
    /\ IF work.firebaseSession.isNull THEN pc' = "catch" /\ UNCHANGED response
       ELSE /\ response' =
                 Response(303, "", FALSE, TRUE,
                          SessionUser(work.firebaseSession.localId, "player",
                                      NormalizeEmail(Coalesce(work.tokenInfo.email,
                                                              work.firebaseSession.email)),
                                      work.firebaseSession.idToken,
                                      work.firebaseSession.refreshToken))
            /\ pc' = "done"
    /\ UNCHANGED <<apiKey, request, run, store, expired, work, history>>
    /\ UNCHANGED sessionVars

\* part_004:467-474: the catch block
CatchSignInError ==
    /\ pc = "catch"
    /\ response' = RedirectToRoot("google_signin_failed")
    /\ pc' = "done"
    /\ UNCHANGED <<apiKey, request, run, store, expired, work, history>>
    /\ UNCHANGED sessionVars

NextSignIn ==
    \/ \E req \in Callbacks : ReceiveCallback(req)
    \/ VerifyGoogleCredential
    \/ SignInWithFirebase
    \/ UpsertFirebaseUser
    \/ IssueSession
    \/ CatchSignInError

SpecSignIn == InitSignIn /\ [][NextSignIn]_vars

-----------------------------------------------------------------------------
(* Properties of the sign-in callback *)

CsrfEqual ==
    /\ request.csrfBody \notin { Absent, "" }
    /\ request.csrfCookie \notin { Absent, "" }
    /\ request.csrfBody = request.csrfCookie

CredentialGiven == request.credential \notin { Absent, "" }

AudienceMatches == work.tokenInfo.ok /\ work.tokenInfo.aud = run.GOOGLE_CLIENT_ID

FirebaseSignedIn == work.firebaseSession.ok

SignInConditions == CsrfEqual /\ CredentialGiven /\ AudienceMatches /\ FirebaseSignedIn

\* C30: the callback sets the session cookie only when the CSRF field and
\* cookie are non-empty and equal, the credential is non-empty, the tokeninfo
\* audience equals GOOGLE_CLIENT_ID and the Firebase sign-in succeeded; in
\* every other case it answers 303 to / with an error parameter and no session
\* cookie; on a CSRF mismatch or a missing credential it made no outbound
\* call; the session in the cookie has the role player
C30_CookieOnlyAfterSignIn ==
    (pc = "done" /\ request # NoCallback) =>
        /\ response.setCookie => SignInConditions
        /\ ~SignInConditions =>
               /\ response.status = 303
               /\ response.error # ""
               /\ ~response.setCookie
        /\ (~CsrfEqual \/ ~CredentialGiven) => work.calls = <<>>
        /\ response.setCookie => response.cookie.role = "player"

=============================================================================
